---- MODULE Spec2Model ----
(***************************************************************************)
(* Inventory-consistency subsystem of the paint-shop backend: the Purchase *)
(* and Sale journals with their persistence hooks, the Inventory store    *)
(* they adjust, the FIFO depletion of purchase lots, and the vendor       *)
(* ledger's opening/closing balance computation.                          *)
(*                                                                         *)
(* Quantities held in the stores are whole units (both controllers pass   *)
(* the requested quantity through parseInt before saving).  A requested   *)
(* sale quantity is given in half units, so that the fractional requests  *)
(* the Sale schema allows (0.5, 1.5, ...) are inputs of the model.        *)
(***************************************************************************)
EXTENDS Integers, Sequences, FiniteSets, TLC

VARIABLES
    inventory,      \* Inventory collection: sequence of rows in natural (insertion) order
    purchases,      \* Purchase collection: set of documents
    sales,          \* Sale collection: set of documents
    nextPurchaseId, \* next Purchase _id; also the creation instant used as its date
    nextSaleId,     \* next Sale _id
    anyDelete,      \* history: TRUE once a purchase or a sale has been deleted
    last,           \* outcome of the handler that ran last
    reqs,           \* requests in flight, when requests overlap: one record per request slot
    ledger,         \* Ledger collection: set of vendor transactions
    nextLedgerId,   \* next Ledger _id
    retry,          \* one run of withRetry: loop index, calls made, how it ended
    saleReq,        \* a sale request in flight whose hook only adjusts Inventory
    productPrices,  \* Product.purchasePrice of each product
    unitPrices,     \* Purchase.unitPrice of each purchase, by _id
    txCount,        \* number of updatePurchase requests handled so far
    activeProducts, \* products with isActive: true
    walks           \* sale and delete requests in flight, one record per slot, step by step

stockVars == <<inventory, purchases, sales, nextPurchaseId, nextSaleId, anyDelete, reqs>>
ledgerVars == <<ledger, nextLedgerId>>
retryVars == <<retry>>
hookVars == <<saleReq>>
txVars == <<productPrices, unitPrices, txCount>>
productVars == <<activeProducts>>
walkVars == <<walks>>
nonWalkVars == <<retryVars, hookVars, txVars, productVars>>
restVars == <<retryVars, hookVars, txVars, productVars, walkVars>>
vars == <<stockVars, last, ledgerVars, restVars>>

----------------------------------------------------------------------------
(* Bounds of the model *)

MaxQty == 2
MaxPurchases == 2
MaxSales == 1
NumRequests == 2

MaxLedger == 3
MaxAmount == 2
MaxDate == 3
TicksPerDay == 2

(* withRetry = async (operation, maxRetries = 5) *)
MaxRetries == 5

(* Vendors are free-text keys.  Requests name v1 on any date and v2 on    *)
(* the first instant only.                                                *)
Vendors == {"v1", "v2"}
LedgerInputs == {x \in Vendors \X (0..MaxDate) : x[1] = "v1" \/ x[2] = 0}

(* The universe of products and colors.  NoColor is the null color. *)
Products == {"p1", "p2"}
Colors == {"red"}
NoColor == "null"
ColorInputs == Colors \cup {NoColor}

(* The (product, color) keys requests are made for: p1 is sold in a color *)
(* and without one, p2 (an accessory) only without.                       *)
Keys == {k \in Products \X ColorInputs : k[1] = "p1" \/ k[2] = NoColor}

----------------------------------------------------------------------------
(* Store helpers *)

RECURSIVE SumQuantity(_)
SumQuantity(S) ==
    IF S = {} THEN 0
    ELSE LET d == CHOOSE x \in S : TRUE
         IN  d.quantity + SumQuantity(S \ {d})

RECURSIVE SumCreated(_)
SumCreated(S) ==
    IF S = {} THEN 0
    ELSE LET d == CHOOSE x \in S : TRUE
         IN  d.created + SumCreated(S \ {d})

Min(a, b) == IF a < b THEN a ELSE b

(* const filter = { product: doc.product }; if (doc.color) filter.color = doc.color; *)
(* A null color leaves the color out of the filter.                                *)
HookFilter(product, color) ==
    IF color # NoColor
        THEN [product |-> product, hasColor |-> TRUE, color |-> color]
        ELSE [product |-> product, hasColor |-> FALSE, color |-> NoColor]

(* A document matches a query filter when every field the filter holds is equal. *)
MatchesFilter(doc, filter) ==
    /\ doc.product = filter.product
    /\ filter.hasColor => doc.color = filter.color

(* Indices of the Inventory rows a filter matches. *)
MatchingRows(inv, filter) ==
    {i \in DOMAIN inv : MatchesFilter(inv[i], filter)}

(* Variant of IncRow that overwrites the quantity ($set in place of $inc). *)
IncRowSet(inv, i, delta) ==
    [inv EXCEPT ![i].quantity = delta]

(* $inc: { quantity: delta } applied to one row. *)
IncRow(inv, i, delta) ==
    [inv EXCEPT ![i].quantity = @ + delta]

(* minStockLevel: { type: Number, min: 0, default: 5 } *)
DefaultMinStockLevel == 5

(* The row an upsert inserts: the filter's equality fields, the schema     *)
(* defaults color: null and minStockLevel: 5, and quantity = delta from    *)
(* the $inc.                                                               *)
UpsertRow(filter, delta) ==
    [product |-> filter.product, color |-> filter.color, quantity |-> delta,
     minStockLevel |-> DefaultMinStockLevel]

(* inventorySchema.index({ product: 1, color: 1 }, { unique: true }) *)
UniqueIndexAllows(inv, row) ==
    \A i \in DOMAIN inv :
        ~(inv[i].product = row.product /\ inv[i].color = row.color)

(* Inventory.findOneAndUpdate(filter, {$inc}, {upsert}) run with nothing   *)
(* else in flight: the set of Inventory collections it can leave.  With    *)
(* no sort, the store picks any one of the matching rows.                  *)
FindOneAndUpdate(inv, filter, delta, upsert) ==
    LET m == MatchingRows(inv, filter)
    IN  IF m # {}
            THEN {IncRow(inv, i, delta) : i \in m}
        ELSE IF upsert /\ UniqueIndexAllows(inv, UpsertRow(filter, delta))
            THEN {Append(inv, UpsertRow(filter, delta))}
        ELSE {inv}

(* Total quantity of the rows whose key is exactly (product, color). *)
KeyRows(inv, product, color) ==
    {i \in DOMAIN inv : inv[i].product = product /\ inv[i].color = color}

RECURSIVE SumRows(_, _)
SumRows(inv, I) ==
    IF I = {} THEN 0
    ELSE LET i == CHOOSE x \in I : TRUE
         IN  inv[i].quantity + SumRows(inv, I \ {i})

KeyQuantity(inv, product, color) == SumRows(inv, KeyRows(inv, product, color))

----------------------------------------------------------------------------
(* FIFO depletion *)

(* Purchase.find(filter).sort({ date: 1 }): the matching purchases, oldest first. *)
RECURSIVE SortByDate(_)
SortByDate(S) ==
    IF S = {} THEN <<>>
    ELSE LET oldest == CHOOSE d \in S : \A e \in S : d.date <= e.date
         IN  <<oldest>> \o SortByDate(S \ {oldest})

MatchingPurchases(ps, filter) == {d \in ps : MatchesFilter(d, filter)}

(* The for-loop of the sale hook over the fetched list: the quantity each  *)
(* fetched purchase is decremented by, as a function of its _id, and the   *)
(* quantity left to deplete when the loop ends.                            *)
(* Variant of FifoLoop that deducts the whole remaining quantity from each  *)
(* entry (no Math.min against the quantity the entry still holds).         *)
RECURSIVE FifoLoopNoMin(_, _, _)
FifoLoopNoMin(list, remainingQty, deducted) ==
    IF list = <<>> \/ remainingQty <= 0
        THEN [deducted |-> deducted, remainingQty |-> remainingQty]
    ELSE LET purchase == Head(list)
             deduct == remainingQty
         IN  FifoLoopNoMin(Tail(list), remainingQty - deduct,
                           deducted @@ (purchase.id :> deduct))

RECURSIVE FifoLoop(_, _, _)
FifoLoop(list, remainingQty, deducted) ==
    IF list = <<>> \/ remainingQty <= 0
        THEN [deducted |-> deducted, remainingQty |-> remainingQty]
    ELSE LET purchase == Head(list)
             deduct == Min(remainingQty, purchase.quantity)
         IN  FifoLoop(Tail(list), remainingQty - deduct,
                      deducted @@ (purchase.id :> deduct))

EmptyMap == [x \in {} |-> 0]

(* Purchase.findByIdAndUpdate(id, {$inc: {quantity: -deduct}}) for every walked entry. *)
ApplyDeductions(ps, deducted) ==
    {IF d.id \in DOMAIN deducted
        THEN [d EXCEPT !.quantity = @ - deducted[d.id]]
        ELSE d : d \in ps}

----------------------------------------------------------------------------
(* Handler outcomes *)

(* op: the handler; status: the HTTP status it answered; doc: the journal  *)
(* document it created or deleted (NoDoc when none); shortfall: the        *)
(* quantity the sale hook warned it could not deduct from purchase history *)
NoDoc == [id |-> 0]

Outcome(op, status, doc, shortfall) ==
    [op |-> op, status |-> status, doc |-> doc, shortfall |-> shortfall]

(* A request slot: pc is the position of the request, doc the journal      *)
(* document it saved, attempt the loop index i of withRetry, and result    *)
(* what the hook logged: "ok" (console.log) or "lost" (console.error).     *)
IdleRequest == [pc |-> "idle", doc |-> NoDoc, attempt |-> 0, result |-> "none"]

(* No run of withRetry is under way. *)
NoRetry ==
    [i |-> 0, calls |-> 0, status |-> "idle", value |-> 0, error |-> "none",
     outcomes |-> <<>>]

(* The state outside the stock and ledger collections, before any use. *)
IdleSaleRequest == [pc |-> "idle", doc |-> NoDoc, attempt |-> 0, result |-> "none"]

HookInit == saleReq = IdleSaleRequest

(* Every price starts at 1. *)
TxInit ==
    /\ productPrices = [p \in Products |-> 1]
    /\ unitPrices = [id \in 1..MaxPurchases |-> 1]
    /\ txCount = 0

(* Every product is active. *)
ProductInit == activeProducts = Products

(* A request slot of a step-by-step sale or delete: pc is its position,   *)
(* halves the requested quantity in half units, available the Inventory   *)
(* quantity the stock check read, doc the journal document, fetched the   *)
(* purchases Purchase.find returned, rest the part of that list the loop  *)
(* has still to visit, remainingQty the loop's counter; for a delete,     *)
(* kind is the collection ("sale" or "purchase"), target the _id of the   *)
(* request, applied the number of Inventory adjustments its hook made.    *)
IdleWalk ==
    [pc |-> "idle", kind |-> "none", target |-> 0, halves |-> 0, available |-> 0,
     doc |-> NoDoc, fetched |-> <<>>, rest |-> <<>>, remainingQty |-> 0,
     applied |-> 0]

WalkInit == walks = [r \in 1..NumRequests |-> IdleWalk]

RestInit == retry = NoRetry /\ HookInit /\ TxInit /\ ProductInit /\ WalkInit

----------------------------------------------------------------------------
(* Initial state: empty collections. *)

Init ==
    /\ inventory = <<>>
    /\ purchases = {}
    /\ sales = {}
    /\ nextPurchaseId = 1
    /\ nextSaleId = 1
    /\ anyDelete = FALSE
    /\ last = Outcome("none", 0, NoDoc, 0)
    /\ reqs = [r \in 1..NumRequests |-> IdleRequest]
    /\ ledger = {}
    /\ nextLedgerId = 1
    /\ RestInit

----------------------------------------------------------------------------
(* Purchase handlers *)

(* The document Purchase.create saves; date defaults to Date.now.  The     *)
(* field created keeps the quantity the purchase was created with.         *)
PurchaseDoc(id, product, color, quantity) ==
    [id |-> id, product |-> product, color |-> color,
     quantity |-> quantity, created |-> quantity, date |-> id]

(* purchaseSchema.post('save'): upsert-increment of the Inventory row. *)
PurchasePostSave(inv, doc) ==
    FindOneAndUpdate(inv, HookFilter(doc.product, doc.color), doc.quantity, TRUE)

(* Purchase schema: quantity min 1; a ValidationError makes create reject   *)
(* and the controller's catch answer 500.                                  *)
PurchaseQuantityValid(quantity) == quantity >= 1

(* createPurchase: validation, Purchase.create, then the post-save hook. *)
CreatePurchase(product, color, quantity) ==
    /\ nextPurchaseId <= MaxPurchases
    /\ IF quantity = 0
         THEN /\ last' = Outcome("createPurchase", 400, NoDoc, 0)
              /\ UNCHANGED <<inventory, purchases, nextPurchaseId>>
       ELSE IF ~PurchaseQuantityValid(quantity)
         THEN /\ last' = Outcome("createPurchase", 500, NoDoc, 0)
              /\ UNCHANGED <<inventory, purchases, nextPurchaseId>>
         ELSE LET doc == PurchaseDoc(nextPurchaseId, product, color, quantity)
              IN  /\ purchases' = purchases \cup {doc}
                  /\ nextPurchaseId' = nextPurchaseId + 1
                  /\ inventory' \in PurchasePostSave(inventory, doc)
                  /\ last' = Outcome("createPurchase", 201, doc, 0)
    /\ UNCHANGED <<sales, nextSaleId, anyDelete, reqs, ledgerVars, restVars>>

(* purchaseSchema.post('findOneAndDelete'): decrement by the stored quantity, no upsert. *)
PurchasePostDelete(inv, doc) ==
    FindOneAndUpdate(inv, HookFilter(doc.product, doc.color), -doc.quantity, FALSE)

(* deletePurchase: findById, 404 when absent, else findByIdAndDelete and its hook. *)
DeletePurchase(id) ==
    /\ id < nextPurchaseId
    /\ IF \E d \in purchases : d.id = id
         THEN LET doc == CHOOSE d \in purchases : d.id = id
              IN  /\ purchases' = purchases \ {doc}
                  /\ inventory' \in PurchasePostDelete(inventory, doc)
                  /\ anyDelete' = TRUE
                  /\ last' = Outcome("deletePurchase", 200, doc, 0)
         ELSE /\ last' = Outcome("deletePurchase", 404, NoDoc, 0)
              /\ UNCHANGED <<inventory, purchases, anyDelete>>
    /\ UNCHANGED <<sales, nextPurchaseId, nextSaleId, reqs, ledgerVars, restVars>>

----------------------------------------------------------------------------
(* Sale handlers *)

(* parseInt(quantity) of a quantity given in half units. *)
ParseInt(halves) ==
    IF halves >= 0 THEN halves \div 2 ELSE 0 - ((0 - halves) \div 2)

(* Sale schema: quantity min 0.5, checked on the value parseInt produced. *)
SaleQuantityValid(quantity) == 2 * quantity >= 1

(* Check stock availability: !inventoryItem || inventoryItem.quantity < quantity *)
InsufficientStock(inv, filter, halves) ==
    \/ MatchingRows(inv, filter) = {}
    \/ \E i \in MatchingRows(inv, filter) : 2 * inv[i].quantity < halves

SufficientStock(inv, filter, halves) ==
    \E i \in MatchingRows(inv, filter) : 2 * inv[i].quantity >= halves

(* saleSchema.post('save'), step 1: Inventory upsert-decrement. *)
SalePostSaveInventory(inv, doc) ==
    FindOneAndUpdate(inv, HookFilter(doc.product, doc.color), -doc.quantity, TRUE)

(* saleSchema.post('save'), step 2: the FIFO walk over the matching purchases. *)
SalePostSaveFifo(ps, doc) ==
    FifoLoop(SortByDate(MatchingPurchases(ps, HookFilter(doc.product, doc.color))),
             doc.quantity, EmptyMap)

(* createSale: required fields, stock check, Sale.create, then the hook. *)
CreateSale(product, color, halves) ==
    /\ nextSaleId <= MaxSales
    /\ LET filter == HookFilter(product, color)
           doc == [id |-> nextSaleId, product |-> product, color |-> color,
                   quantity |-> ParseInt(halves)]
           fifo == SalePostSaveFifo(purchases, doc)
       IN  \/ /\ halves = 0
              /\ last' = Outcome("createSale", 400, NoDoc, 0)
              /\ UNCHANGED <<inventory, purchases, sales, nextSaleId>>
           \/ /\ halves # 0
              /\ InsufficientStock(inventory, filter, halves)
              /\ last' = Outcome("createSale", 400, NoDoc, 0)
              /\ UNCHANGED <<inventory, purchases, sales, nextSaleId>>
           \/ /\ halves # 0
              /\ SufficientStock(inventory, filter, halves)
              /\ ~SaleQuantityValid(doc.quantity)
              /\ last' = Outcome("createSale", 500, NoDoc, 0)
              /\ UNCHANGED <<inventory, purchases, sales, nextSaleId>>
           \/ /\ halves # 0
              /\ SufficientStock(inventory, filter, halves)
              /\ SaleQuantityValid(doc.quantity)
              /\ sales' = sales \cup {doc}
              /\ nextSaleId' = nextSaleId + 1
              /\ inventory' \in SalePostSaveInventory(inventory, doc)
              /\ purchases' = ApplyDeductions(purchases, fifo.deducted)
              /\ last' = Outcome("createSale", 201, doc, fifo.remainingQty)
    /\ UNCHANGED <<nextPurchaseId, anyDelete, reqs, ledgerVars, restVars>>

(* saleSchema.post('findOneAndDelete'): restore Inventory (no upsert), then *)
(* add the whole quantity back to the oldest matching purchase, if any.    *)
SalePostDeleteInventory(inv, doc) ==
    FindOneAndUpdate(inv, HookFilter(doc.product, doc.color), doc.quantity, FALSE)

SalePostDeletePurchases(ps, doc) ==
    LET list == SortByDate(MatchingPurchases(ps, HookFilter(doc.product, doc.color)))
    IN  IF list = <<>> THEN ps
        ELSE ApplyDeductions(ps, Head(list).id :> (0 - doc.quantity))

(* deleteSale: findById, 404 when absent, else findByIdAndDelete and its hook. *)
DeleteSale(id) ==
    /\ id < nextSaleId
    /\ IF \E d \in sales : d.id = id
         THEN LET doc == CHOOSE d \in sales : d.id = id
              IN  /\ sales' = sales \ {doc}
                  /\ inventory' \in SalePostDeleteInventory(inventory, doc)
                  /\ purchases' = SalePostDeletePurchases(purchases, doc)
                  /\ anyDelete' = TRUE
                  /\ last' = Outcome("deleteSale", 200, doc, 0)
         ELSE /\ last' = Outcome("deleteSale", 404, NoDoc, 0)
              /\ UNCHANGED <<inventory, purchases, sales, anyDelete>>
    /\ UNCHANGED <<nextPurchaseId, nextSaleId, reqs, ledgerVars, restVars>>

----------------------------------------------------------------------------
(* Requests handled one at a time *)

Next ==
    \/ \E k \in Keys, q \in (0 - 1)..MaxQty : CreatePurchase(k[1], k[2], q)
    \/ \E k \in Keys, h \in (0 - 2)..(2 * MaxQty) : CreateSale(k[1], k[2], h)
    \/ \E id \in 1..MaxPurchases : DeletePurchase(id)
    \/ \E id \in 1..MaxSales : DeleteSale(id)

Spec == Init /\ [][Next]_vars

----------------------------------------------------------------------------
(* Overlapping purchase creations.  Every store call is a suspension point *)
(* of the request; other requests run between two calls.                   *)
(*                                                                         *)
(* The store runs findOneAndUpdate with upsert as a match followed, when   *)
(* nothing matched, by an insert that the unique index checks.  A match    *)
(* and its $inc are one atomic step.  Under contention on the product's    *)
(* rows the store may answer an attempt with a WriteConflict error.        *)

InHook(r) == reqs[r].pc \in {"hook", "insert"}

Contended(r) ==
    \E o \in DOMAIN reqs :
        o # r /\ InHook(o) /\ reqs[o].doc.product = reqs[r].doc.product

RequestFilter(r) == HookFilter(reqs[r].doc.product, reqs[r].doc.color)

Finish(r, result) ==
    reqs' = [reqs EXCEPT ![r].pc = "done", ![r].result = result]

(* createPurchase up to Purchase.create: the document is saved and the     *)
(* post-save hook entered, withRetry at i = 0.                             *)
RequestPurchase(r, product, color, quantity) ==
    /\ reqs[r].pc = "idle"
    /\ IF r = 1 THEN TRUE ELSE reqs[r - 1].pc # "idle"
    /\ LET doc == PurchaseDoc(nextPurchaseId, product, color, quantity)
       IN  /\ purchases' = purchases \cup {doc}
           /\ nextPurchaseId' = nextPurchaseId + 1
           /\ reqs' = [reqs EXCEPT ![r] =
                  [pc |-> "hook", doc |-> doc, attempt |-> 0, result |-> "none"]]
    /\ UNCHANGED <<inventory, sales, nextSaleId, anyDelete, last, ledgerVars, restVars>>

(* An attempt finds a matching row: the $inc is applied to it and          *)
(* withRetry returns.                                                      *)
HookUpdate(r) ==
    /\ reqs[r].pc = "hook"
    /\ \E i \in MatchingRows(inventory, RequestFilter(r)) :
          inventory' = IncRow(inventory, i, reqs[r].doc.quantity)
    /\ Finish(r, "ok")
    /\ UNCHANGED <<purchases, sales, nextPurchaseId, nextSaleId, anyDelete, last, ledgerVars, restVars>>

(* An attempt finds no matching row: the upsert goes on to insert one. *)
HookNoMatch(r) ==
    /\ reqs[r].pc = "hook"
    /\ MatchingRows(inventory, RequestFilter(r)) = {}
    /\ reqs' = [reqs EXCEPT ![r].pc = "insert"]
    /\ UNCHANGED <<inventory, purchases, sales, nextPurchaseId, nextSaleId, anyDelete, last, ledgerVars, restVars>>

(* Variant of HookCatch that lets the error leave the hook. *)
HookCatchRethrow(error) == error

(* The hook's  catch (error) { console.error(...) }: the error is logged   *)
(* and the hook ends normally, its adjustment lost.                        *)
HookCatch(error) == "lost"

(* Variant of Retryable that retries whatever the error is. *)
RetryableAny(isWriteConflict, i) == i < MaxRetries - 1

(* Variant of Retryable without the bound on the loop index. *)
RetryableAlways(isWriteConflict, i) == isWriteConflict

(* if (isWriteConflict && i < maxRetries - 1) *)
Retryable(isWriteConflict, i) == isWriteConflict /\ i < MaxRetries - 1

(* withRetry's catch: a write conflict is retried after the backoff while  *)
(* i < maxRetries - 1; any other error, or the last conflict, is thrown,   *)
(* and the hook's own catch logs it.                                       *)
WithRetryCatch(r, isWriteConflict) ==
    IF Retryable(isWriteConflict, reqs[r].attempt)
        THEN reqs' = [reqs EXCEPT ![r].pc = "hook", ![r].attempt = @ + 1]
        ELSE Finish(r, HookCatch("thrown"))

(* An attempt is answered with a WriteConflict error; nothing is written. *)
HookWriteConflict(r) ==
    /\ reqs[r].pc = "hook"
    /\ Contended(r)
    /\ WithRetryCatch(r, TRUE)
    /\ UNCHANGED <<inventory, purchases, sales, nextPurchaseId, nextSaleId, anyDelete, last, ledgerVars, restVars>>

(* The insert of the upsert passes the unique index. *)
HookInsert(r) ==
    /\ reqs[r].pc = "insert"
    /\ UniqueIndexAllows(inventory, UpsertRow(RequestFilter(r), reqs[r].doc.quantity))
    /\ inventory' = Append(inventory, UpsertRow(RequestFilter(r), reqs[r].doc.quantity))
    /\ Finish(r, "ok")
    /\ UNCHANGED <<purchases, sales, nextPurchaseId, nextSaleId, anyDelete, last, ledgerVars, restVars>>

(* The insert of the upsert hits the unique index: another request         *)
(* inserted the key first.  When the filter is an equality on both index   *)
(* fields the server reruns the upsert, which now matches; otherwise the   *)
(* duplicate-key error (code 11000) reaches withRetry, which does not      *)
(* retry it.                                                               *)
HookDuplicateKey(r) ==
    /\ reqs[r].pc = "insert"
    /\ ~UniqueIndexAllows(inventory, UpsertRow(RequestFilter(r), reqs[r].doc.quantity))
    /\ IF RequestFilter(r).hasColor
         THEN /\ reqs' = [reqs EXCEPT ![r].pc = "hook"]
              /\ UNCHANGED inventory
         ELSE /\ WithRetryCatch(r, FALSE)
              /\ UNCHANGED inventory
    /\ UNCHANGED <<purchases, sales, nextPurchaseId, nextSaleId, anyDelete, last, ledgerVars, restVars>>

NextConc ==
    \/ \E r \in 1..NumRequests, k \in Keys, q \in 1..MaxQty :
          RequestPurchase(r, k[1], k[2], q)
    \/ \E r \in 1..NumRequests : HookUpdate(r)
    \/ \E r \in 1..NumRequests : HookNoMatch(r)
    \/ \E r \in 1..NumRequests : HookWriteConflict(r)
    \/ \E r \in 1..NumRequests : HookInsert(r)
    \/ \E r \in 1..NumRequests : HookDuplicateKey(r)

(* The requests start on empty collections, or on the collections one     *)
(* earlier createPurchase of one red p1 left behind.                       *)
InitConc ==
    /\ \/ /\ inventory = <<>>
          /\ purchases = {}
          /\ nextPurchaseId = 1
       \/ /\ inventory = <<UpsertRow(HookFilter("p1", "red"), 1)>>
          /\ purchases = {PurchaseDoc(1, "p1", "red", 1)}
          /\ nextPurchaseId = 2
    /\ sales = {}
    /\ nextSaleId = 1
    /\ anyDelete = FALSE
    /\ last = Outcome("none", 0, NoDoc, 0)
    /\ reqs = [r \in 1..NumRequests |-> IdleRequest]
    /\ ledger = {}
    /\ nextLedgerId = 1
    /\ RestInit

SpecConc == InitConc /\ [][NextConc]_vars

AllDone == \A r \in DOMAIN reqs : reqs[r].pc = "done"

----------------------------------------------------------------------------
(* Vendor ledger.  A date is an instant counted in ticks; TicksPerDay      *)
(* ticks make one calendar day.                                            *)

(* Variant of StartOfDay that leaves the instant as it is. *)
StartOfDayIdentity(date) == date

(* startOfDay = new Date(date); startOfDay.setHours(0, 0, 0, 0) *)
StartOfDay(date) == (date \div TicksPerDay) * TicksPerDay

(* The vendor's transactions dated before the start of the day of date. *)
PriorTransactions(L, vendor, date) ==
    {t \in L : t.vendor = vendor /\ t.date < StartOfDay(date)}

(* Variant of GetOpeningBalance that carries no balance over. *)
GetOpeningBalanceZero(L, vendor, date) == {0}

(* Variant of GetOpeningBalance whose query leaves the vendor out. *)
GetOpeningBalanceAnyVendor(L, vendor, date) ==
    LET prior == {t \in L : t.date < StartOfDay(date)}
    IN  IF prior = {} THEN {0}
        ELSE {t.closingBalance :
                t \in {x \in prior : \A u \in prior : u.date <= x.date}}

(* Ledger.findOne({vendor, date: {$lt: startOfDay}}).sort({date: -1}):     *)
(* the closing balance of a latest prior transaction, 0 when there is      *)
(* none.  Among several transactions with the latest date the store        *)
(* returns any one.                                                        *)
GetOpeningBalance(L, vendor, date) ==
    LET prior == PriorTransactions(L, vendor, date)
    IN  IF prior = {} THEN {0}
        ELSE {t.closingBalance :
                t \in {x \in prior : \A u \in prior : u.date <= x.date}}

(* Variant of CalculateClosingBalance with the two signs exchanged. *)
CalculateClosingBalanceSwapped(openingBalance, transactionType, amount) ==
    IF transactionType = "receivable" THEN openingBalance - amount
    ELSE IF transactionType = "payable" THEN openingBalance + amount
    ELSE openingBalance

CalculateClosingBalance(openingBalance, transactionType, amount) ==
    IF transactionType = "receivable" THEN openingBalance + amount
    ELSE IF transactionType = "payable" THEN openingBalance - amount
    ELSE openingBalance

(* History kept with an entry: the _ids of the vendor's latest-dated       *)
(* transactions before the entry's day at the moment it was added.         *)
LatestBefore(L, vendor, date) ==
    LET day == date \div TicksPerDay
        prior == {t \in L : t.vendor = vendor /\ t.date \div TicksPerDay < day}
    IN  {t.id : t \in {x \in prior : \A u \in prior : u.date <= x.date}}

(* addTransaction: validation, opening and closing balance, save. *)
AddTransaction(vendor, transactionType, amount, date) ==
    /\ nextLedgerId <= MaxLedger
    /\ IF vendor = "" \/ transactionType = "" \/ amount = 0
         THEN /\ last' = Outcome("addTransaction", 400, NoDoc, 0)
              /\ UNCHANGED ledgerVars
       ELSE IF transactionType \notin {"payable", "receivable"}
         THEN /\ last' = Outcome("addTransaction", 400, NoDoc, 0)
              /\ UNCHANGED ledgerVars
       ELSE IF amount <= 0
         THEN /\ last' = Outcome("addTransaction", 400, NoDoc, 0)
              /\ UNCHANGED ledgerVars
       ELSE \E openingBalance \in GetOpeningBalance(ledger, vendor, date) :
              LET closingBalance ==
                      CalculateClosingBalance(openingBalance, transactionType, amount)
                  ledgerEntry ==
                      [id |-> nextLedgerId, vendor |-> vendor,
                       transactionType |-> transactionType, amount |-> amount,
                       date |-> date, openingBalance |-> openingBalance,
                       closingBalance |-> closingBalance, status |-> "completed",
                       basis |-> LatestBefore(ledger, vendor, date)]
              IN  /\ ledger' = ledger \cup {ledgerEntry}
                  /\ nextLedgerId' = nextLedgerId + 1
                  /\ last' = Outcome("addTransaction", 201, ledgerEntry, 0)
    /\ UNCHANGED <<stockVars, restVars>>

(* The update document of updateTransaction, { status }, applied to a row. *)
StatusUpdateWithBalance(t, status) ==
    [t EXCEPT !.status = status, !.closingBalance = t.openingBalance]

StatusUpdate(t, status) == [t EXCEPT !.status = status]

(* updateTransaction: only the status is written. *)
UpdateTransaction(id, status) ==
    /\ IF status \notin {"pending", "completed", "cancelled"}
         THEN /\ last' = Outcome("updateTransaction", 400, NoDoc, 0)
              /\ UNCHANGED ledgerVars
       ELSE IF \E t \in ledger : t.id = id
         THEN LET t == CHOOSE x \in ledger : x.id = id
                  updatedTransaction == StatusUpdate(t, status)
              IN  /\ ledger' = (ledger \ {t}) \cup {updatedTransaction}
                  /\ last' = Outcome("updateTransaction", 200, updatedTransaction, 0)
                  /\ UNCHANGED nextLedgerId
       ELSE /\ last' = Outcome("updateTransaction", 404, NoDoc, 0)
            /\ UNCHANGED ledgerVars
    /\ UNCHANGED <<stockVars, restVars>>

(* deleteTransaction: the row is removed outright. *)
DeleteTransaction(id) ==
    /\ IF \E t \in ledger : t.id = id
         THEN LET deletedTransaction == CHOOSE x \in ledger : x.id = id
              IN  /\ ledger' = ledger \ {deletedTransaction}
                  /\ last' = Outcome("deleteTransaction", 200, deletedTransaction, 0)
                  /\ UNCHANGED nextLedgerId
         ELSE /\ last' = Outcome("deleteTransaction", 404, NoDoc, 0)
              /\ UNCHANGED ledgerVars
    /\ UNCHANGED <<stockVars, restVars>>

NextLedger ==
    \/ \E x \in LedgerInputs \cup {<<"", 0>>},
          ty \in {"payable", "receivable", "other", ""},
          a \in (0 - 1)..MaxAmount :
          AddTransaction(x[1], ty, a, x[2])
    \/ \E id \in 1..MaxLedger, st \in {"cancelled", "other"} :
          UpdateTransaction(id, st)
    \/ \E id \in 1..MaxLedger : DeleteTransaction(id)

SpecLedger == Init /\ [][NextLedger]_vars

----------------------------------------------------------------------------
(* Vocabulary of the properties *)

DocKey(doc) == <<doc.product, doc.color>>

(* The last handler created (201) or deleted (200) a journal document. *)
Succeeded(outcome, op) == outcome.op = op /\ outcome.status \in {200, 201}

(* Rows of the new collection whose quantity differs from the old one,    *)
(* a newly inserted row counting as changed.                              *)
ChangedRows(inv, inv2) ==
    {i \in DOMAIN inv2 : i \notin DOMAIN inv \/ inv2[i].quantity # inv[i].quantity}

SameKeyPurchases(ps, key) == {d \in ps : DocKey(d) = key}

----------------------------------------------------------------------------
(* C1: after purchase creations and sale creations that are all for one    *)
(* (product, color) pair, with no deletion, the Inventory quantity of that *)
(* pair is the sum of the created purchase quantities minus the sum of the *)
(* sale quantities.                                                        *)
OnlyKey(key) ==
    /\ ~anyDelete
    /\ \A d \in purchases : DocKey(d) = key
    /\ \A d \in sales : DocKey(d) = key

C1_QuantityInvariant ==
    \A key \in Keys :
        OnlyKey(key) =>
            KeyQuantity(inventory, key[1], key[2])
                = SumCreated(purchases) - SumQuantity(sales)

C1_Witness ==
    /\ \E key \in Keys : OnlyKey(key)
    /\ Cardinality(purchases) >= 2
    /\ Succeeded(last, "createSale")
    /\ SumCreated(purchases) - SumQuantity(sales) > 0

----------------------------------------------------------------------------
(* C4: a successful stock adjustment for a journal entry with key          *)
(* (product, color) changes the quantity of the Inventory row with exactly *)
(* that key (a null color meaning the row whose color is null) and of no   *)
(* other row.                                                              *)
AdjustedOnlyOwnKey ==
    LET doc == last'.doc
    IN  \A i \in ChangedRows(inventory, inventory') :
            /\ inventory'[i].product = doc.product
            /\ inventory'[i].color = doc.color

C4_AdjustsExactKey ==
    [][last'.status \in {200, 201} => AdjustedOnlyOwnKey]_vars

----------------------------------------------------------------------------
(* C5: deleting a purchase created with quantity Q reduces the Inventory   *)
(* quantity of its (product, color) by exactly Q, whatever sales were      *)
(* recorded in between.  Stated for purchases that carry a color, whose    *)
(* hook filter names the exact key.                                        *)
C5_DeletePurchaseReducesByCreated ==
    [][(Succeeded(last', "deletePurchase") /\ last'.doc.color # NoColor) =>
          KeyQuantity(inventory', last'.doc.product, last'.doc.color)
            = KeyQuantity(inventory, last'.doc.product, last'.doc.color)
                - last'.doc.created]_vars

----------------------------------------------------------------------------
(* C6: deleting an existing sale of quantity Q increases the Inventory     *)
(* quantity of the sale's (product, color) by exactly Q and changes no     *)
(* other Inventory row.                                                    *)
C6_DeleteSaleRestoresOwnKey ==
    [][Succeeded(last', "deleteSale") =>
          /\ KeyQuantity(inventory', last'.doc.product, last'.doc.color)
                = KeyQuantity(inventory, last'.doc.product, last'.doc.color)
                    + last'.doc.quantity
          /\ AdjustedOnlyOwnKey]_vars

----------------------------------------------------------------------------
(* C7: when a sale of quantity Q is recorded and the purchases of the same *)
(* (product, color) hold at least Q in total, those purchases lose exactly *)
(* Q in total, oldest date first: none of them is reduced while an older   *)
(* one of the same key is left above 0.                                    *)
QuantityOf(ps, id) == (CHOOSE d \in ps : d.id = id).quantity

FifoOverSameKey ==
    LET doc == last'.doc
        before == SameKeyPurchases(purchases, DocKey(doc))
        after == SameKeyPurchases(purchases', DocKey(doc))
    IN  SumQuantity(before) >= doc.quantity =>
            /\ SumQuantity(before) - SumQuantity(after) = doc.quantity
            /\ \A d \in after, e \in after :
                  (e.date < d.date /\ d.quantity < QuantityOf(before, d.id))
                      => e.quantity = 0

C7_FifoOldestFirst ==
    [][Succeeded(last', "createSale") => FifoOverSameKey]_vars

----------------------------------------------------------------------------
ShortfallEffects ==
    LET doc == last'.doc
        filter == HookFilter(doc.product, doc.color)
        total == SumQuantity(MatchingPurchases(purchases, filter))
    IN  doc.quantity > total =>
            /\ doc \in sales'
            /\ \E i \in DOMAIN inventory :
                  /\ ChangedRows(inventory, inventory') = {i}
                  /\ MatchesFilter(inventory[i], filter)
                  /\ inventory'[i].quantity = inventory[i].quantity - doc.quantity
            /\ \A d \in MatchingPurchases(purchases', filter) : d.quantity = 0
            /\ last'.shortfall = doc.quantity - total
            /\ last'.shortfall > 0

----------------------------------------------------------------------------
(* C2: N overlapping purchase creations for one (product, color), each of  *)
(* quantity 1, raise the Inventory quantity of that pair by exactly N,     *)
(* whatever the interleaving and whatever write conflicts are retried.     *)
(* Stated for requests that start on empty collections, where the pair's   *)
(* quantity starts at 0.                                                   *)
C2_NoLostIncrement ==
    \A key \in Keys :
        (/\ AllDone
         /\ Cardinality(purchases) = NumRequests
         /\ \A r \in DOMAIN reqs :
               DocKey(reqs[r].doc) = key /\ reqs[r].doc.quantity = 1)
        => KeyQuantity(inventory, key[1], key[2]) = NumRequests

----------------------------------------------------------------------------
(* C3: at most one Inventory row per (product, color) in every state, and  *)
(* once the overlapping purchases of a pair that had no row when they      *)
(* started have all finished, exactly one row of that pair.                *)
UnseenAtStart(key) ==
    Cardinality(purchases) = NumRequests \/ key # <<"p1", "red">>

C3_OneRowPerKey ==
    /\ \A key \in Keys : Cardinality(KeyRows(inventory, key[1], key[2])) <= 1
    /\ \A key \in Keys :
          (/\ AllDone
           /\ UnseenAtStart(key)
           /\ \A r \in DOMAIN reqs : DocKey(reqs[r].doc) = key)
          => Cardinality(KeyRows(inventory, key[1], key[2])) = 1

----------------------------------------------------------------------------
(* Vocabulary of the ledger properties *)
DayOf(date) == date \div TicksPerDay

SameVendorSameDay(a, b) ==
    a.id # b.id /\ a.vendor = b.vendor /\ DayOf(a.date) = DayOf(b.date)

(* C9: a successful addTransaction stores an openingBalance equal to the   *)
(* closingBalance of the vendor's latest transaction dated strictly before *)
(* the start of the new transaction's calendar day, 0 when the vendor has  *)
(* none, and a closingBalance equal to openingBalance plus the amount for  *)
(* a receivable and minus the amount for a payable.                        *)
C9_OpeningAndClosingBalance ==
    [][(Succeeded(last', "addTransaction") /\ nextLedgerId' # nextLedgerId) =>
         LET e == last'.doc
             dayStart == e.date - (e.date % TicksPerDay)
             before == {t \in ledger : t.vendor = e.vendor /\ t.date < dayStart}
         IN  /\ e \in ledger'
             /\ before = {} => e.openingBalance = 0
             /\ before # {} =>
                   \E t \in before :
                       /\ \A u \in before : u.date <= t.date
                       /\ e.openingBalance = t.closingBalance
             /\ e.transactionType = "receivable" =>
                   e.closingBalance = e.openingBalance + e.amount
             /\ e.transactionType = "payable" =>
                   e.closingBalance = e.openingBalance - e.amount]_vars

(* A receivable of 2 on the first day, then a payable of 1 on the next     *)
(* day: balances 0/2 and 2/1.                                              *)
C9_Witness ==
    /\ Succeeded(last, "addTransaction")
    /\ last.doc.transactionType = "payable" /\ last.doc.amount = 1
    /\ DayOf(last.doc.date) = 1
    /\ last.doc.openingBalance = 2 /\ last.doc.closingBalance = 1
    /\ \E t \in ledger :
          /\ t.vendor = last.doc.vendor /\ DayOf(t.date) = 0
          /\ t.transactionType = "receivable" /\ t.amount = 2
          /\ t.openingBalance = 0 /\ t.closingBalance = 2

(* C10: any two transactions of one vendor on one calendar day carry the   *)
(* same openingBalance, whichever was added first and whatever their times *)
(* within the day.                                                         *)
C10_SameDaySameOpening ==
    \A a \in ledger : \A b \in ledger :
        SameVendorSameDay(a, b) => a.openingBalance = b.openingBalance

(* C10 as it holds: two transactions of one vendor on one calendar day     *)
(* carry the same openingBalance, whichever was added first and whatever   *)
(* their times within the day, when at both additions the vendor's latest  *)
(* transaction before that day was the same single transaction or there    *)
(* was none.                                                               *)
C10_SameDaySameOpeningSameBasis ==
    \A a \in ledger : \A b \in ledger :
        (/\ SameVendorSameDay(a, b)
         /\ a.basis = b.basis
         /\ Cardinality(a.basis) <= 1)
        => a.openingBalance = b.openingBalance

(* The later addition carries the earlier time of the day, and both read   *)
(* the closing balance of the same earlier transaction.                    *)
C10_Witness ==
    /\ Succeeded(last, "addTransaction")
    /\ last.doc \in ledger
    /\ \E a \in ledger :
          /\ SameVendorSameDay(a, last.doc)
          /\ a.id < last.doc.id /\ a.date > last.doc.date
          /\ a.basis = last.doc.basis /\ Cardinality(a.basis) = 1
          /\ a.openingBalance # 0

----------------------------------------------------------------------------
(* The vendor's entries, and the chain over them in date order. *)
VendorEntries(L, vendor) == {t \in L : t.vendor = vendor}

ChainOver(E) ==
    \A e \in E :
        LET earlier == {p \in E : p.date < e.date}
        IN  IF earlier = {} THEN e.openingBalance = 0
            ELSE \E p \in earlier :
                     /\ \A u \in earlier : u.date <= p.date
                     /\ e.openingBalance = p.closingBalance

(* C11: in every reachable state of the ledger, each vendor's entries in   *)
(* date order form a chain: an entry's openingBalance is the               *)
(* closingBalance of the vendor's immediately preceding entry, and the     *)
(* first entry's openingBalance is 0.                                      *)
C11_LedgerChain == \A v \in Vendors : ChainOver(VendorEntries(ledger, v))

(* No entry was deleted, and the vendor's entries lie on distinct calendar *)
(* days and were added in the order of their dates.                        *)
AddedInDateOrder(L, vendor) ==
    /\ Cardinality(L) = nextLedgerId - 1
    /\ \A a \in VendorEntries(L, vendor) : \A b \in VendorEntries(L, vendor) :
          a.id < b.id => DayOf(a.date) < DayOf(b.date)

(* C11 as it holds: a vendor's entries in date order form a chain starting *)
(* at 0 as long as no entry was deleted and the vendor's entries were      *)
(* added in date order, at most one per calendar day.                      *)
C11_LedgerChainInDateOrder ==
    \A v \in Vendors :
        AddedInDateOrder(ledger, v) => ChainOver(VendorEntries(ledger, v))

(* A chain of two entries of one vendor on consecutive days. *)
C11_Witness ==
    /\ Succeeded(last, "addTransaction")
    /\ last.doc \in ledger
    /\ AddedInDateOrder(ledger, last.doc.vendor)
    /\ last.doc.openingBalance # 0
    /\ Cardinality(VendorEntries(ledger, last.doc.vendor)) = 2

----------------------------------------------------------------------------
(* withRetry(operation) on its own.  outcomes[k] is what the k-th call of  *)
(* operation does: it succeeds, fails with a write conflict, or fails with *)
(* another error.  A successful call returns its own number.               *)
OperationOutcomes == {"ok", "conflict", "other"}

InitRetry ==
    /\ inventory = <<>>
    /\ purchases = {}
    /\ sales = {}
    /\ nextPurchaseId = 1
    /\ nextSaleId = 1
    /\ anyDelete = FALSE
    /\ last = Outcome("none", 0, NoDoc, 0)
    /\ reqs = [r \in 1..NumRequests |-> IdleRequest]
    /\ ledger = {}
    /\ nextLedgerId = 1
    /\ \E o \in [1..MaxRetries -> OperationOutcomes] :
          retry = [NoRetry EXCEPT !.status = "running", !.outcomes = o]
    /\ HookInit
    /\ TxInit
    /\ ProductInit
    /\ WalkInit

(* One iteration of  for (let i = 0; i < maxRetries; i++) { try ... }  *)
WithRetryIteration ==
    /\ retry.status = "running"
    /\ IF retry.i >= MaxRetries
         THEN retry' = [retry EXCEPT !.status = "returned", !.value = 0]
       ELSE LET outcome == retry.outcomes[retry.calls + 1]
                called == [retry EXCEPT !.calls = @ + 1]
            IN  IF outcome = "ok"
                  THEN retry' = [called EXCEPT !.status = "returned",
                                               !.value = called.calls]
                ELSE IF Retryable(outcome = "conflict", retry.i)
                  THEN retry' = [called EXCEPT !.i = @ + 1]
                ELSE retry' = [called EXCEPT !.status = "thrown",
                                             !.error = outcome]
    /\ UNCHANGED <<stockVars, last, ledgerVars, hookVars, txVars, productVars, walkVars>>

NextRetry == WithRetryIteration

(* The loop is a single thread of control that is never suspended for      *)
(* good: a setTimeout backoff always fires.                                *)
SpecRetry == InitRetry /\ [][NextRetry]_vars /\ WF_vars(NextRetry)

(* C12: withRetry always terminates; it calls the operation at most 5      *)
(* times, returns the result of the first call that succeeds without       *)
(* calling again, and when all 5 calls fail with a write conflict it       *)
(* throws that error.                                                      *)
C12_WithRetryTerminates ==
    /\ <>(retry.status \in {"returned", "thrown"})
    /\ [](retry.calls <= 5)
    /\ [](retry.status = "returned" =>
            /\ retry.calls >= 1
            /\ retry.outcomes[retry.calls] = "ok"
            /\ retry.value = retry.calls
            /\ \A k \in 1..(retry.calls - 1) : retry.outcomes[k] # "ok")
    /\ []((retry.status # "running" /\ retry.calls >= 1
           /\ retry.outcomes[retry.calls] = "ok") => retry.status = "returned")
    /\ []((retry.status # "running"
           /\ \A k \in 1..5 : retry.outcomes[k] = "conflict") =>
            /\ retry.status = "thrown"
            /\ retry.error = "conflict"
            /\ retry.calls = 5)

(* Five write conflicts in a row, and the fifth is thrown. *)
C12_Witness ==
    /\ retry.status = "thrown"
    /\ retry.calls = 5
    /\ \A k \in 1..5 : retry.outcomes[k] = "conflict"

----------------------------------------------------------------------------
(* Best-effort hooks with the controller's answer.  Purchases run the      *)
(* hook of SpecConc; a sale runs the hook that only adjusts Inventory,     *)
(* with the filter {product, color} and no upsert, after a createSale      *)
(* that does not look at the stock.                                        *)

(* The controller's answer: 201 once create has resolved, 500 from its    *)
(* catch when create rejected, 0 while the request is not answered.        *)
PurchaseResponse(r) ==
    IF reqs[r].pc # "done" THEN 0
    ELSE IF reqs[r].result = "thrown" THEN 500 ELSE 201

SaleResponse ==
    IF saleReq.pc = "rejected" THEN 400
    ELSE IF saleReq.pc # "done" THEN 0
    ELSE IF saleReq.result = "thrown" THEN 500 ELSE 201

SaleContended ==
    \E o \in DOMAIN reqs : InHook(o) /\ reqs[o].doc.product = saleReq.doc.product

FinishSale(result) ==
    saleReq' = [saleReq EXCEPT !.pc = "done", !.result = result]

(* createSale up to Sale.create: required fields, then the document is     *)
(* saved and the post-save hook entered.                                   *)
RequestSale(product, color, quantity) ==
    /\ saleReq.pc = "idle"
    /\ nextSaleId <= MaxSales
    /\ IF quantity = 0
         THEN /\ saleReq' = [saleReq EXCEPT !.pc = "rejected"]
              /\ UNCHANGED <<sales, nextSaleId>>
         ELSE LET doc == [id |-> nextSaleId, product |-> product,
                          color |-> color, quantity |-> quantity]
              IN  /\ sales' = sales \cup {doc}
                  /\ nextSaleId' = nextSaleId + 1
                  /\ saleReq' = [saleReq EXCEPT !.pc = "hook", !.doc = doc]
    /\ UNCHANGED <<inventory, purchases, nextPurchaseId, anyDelete, reqs, last,
                   ledgerVars, retryVars, txVars, productVars, walkVars>>

(* findOneAndUpdate({product, color}, $inc -quantity) finds the row. *)
SaleHookUpdate ==
    /\ saleReq.pc = "hook"
    /\ \E i \in KeyRows(inventory, saleReq.doc.product, saleReq.doc.color) :
          inventory' = IncRow(inventory, i, 0 - saleReq.doc.quantity)
    /\ FinishSale("ok")
    /\ UNCHANGED <<purchases, sales, nextPurchaseId, nextSaleId, anyDelete, reqs,
                   last, ledgerVars, retryVars, txVars, productVars, walkVars>>

(* No row: the operation throws 'Inventory not found', withRetry rethrows  *)
(* it as it is no write conflict, and the hook's catch logs it.            *)
SaleHookMissing ==
    /\ saleReq.pc = "hook"
    /\ KeyRows(inventory, saleReq.doc.product, saleReq.doc.color) = {}
    /\ IF Retryable(FALSE, saleReq.attempt)
         THEN saleReq' = [saleReq EXCEPT !.attempt = @ + 1]
         ELSE FinishSale(HookCatch("thrown"))
    /\ UNCHANGED <<inventory, purchases, sales, nextPurchaseId, nextSaleId,
                   anyDelete, reqs, last, ledgerVars, retryVars, txVars, productVars, walkVars>>

(* An attempt is answered with a WriteConflict error; nothing is written. *)
SaleHookWriteConflict ==
    /\ saleReq.pc = "hook"
    /\ SaleContended
    /\ IF Retryable(TRUE, saleReq.attempt)
         THEN saleReq' = [saleReq EXCEPT !.attempt = @ + 1]
         ELSE FinishSale(HookCatch("thrown"))
    /\ UNCHANGED <<inventory, purchases, sales, nextPurchaseId, nextSaleId,
                   anyDelete, reqs, last, ledgerVars, retryVars, txVars, productVars, walkVars>>

NextHook ==
    \/ NextConc
    \/ \E k \in Keys, q \in 0..MaxQty : RequestSale(k[1], k[2], q)
    \/ SaleHookUpdate
    \/ SaleHookMissing
    \/ SaleHookWriteConflict

SpecHook == InitConc /\ [][NextHook]_vars

(* Purchases whose increment has been applied: those not of a request      *)
(* whose hook is still running or has failed.                              *)
AppliedPurchases ==
    {d \in purchases :
        ~ \E r \in DOMAIN reqs : reqs[r].doc = d /\ reqs[r].result # "ok"}

AppliedSaleQuantity ==
    IF saleReq.result = "ok" THEN saleReq.doc.quantity ELSE 0

(* C13: in the best-effort path a failed Inventory adjustment (a write     *)
(* conflict that outlasts the retries, a missing Inventory row on sale)    *)
(* never fails the creation: the Purchase or Sale document stays stored,   *)
(* the request is answered 201, and the Inventory quantities carry exactly *)
(* the adjustments that did not fail.                                      *)
C13_HookFailureSwallowed ==
    /\ [](\A r \in DOMAIN reqs :
            (reqs[r].pc = "done" /\ reqs[r].result # "ok") =>
                PurchaseResponse(r) = 201 /\ reqs[r].doc \in purchases)
    /\ []((saleReq.pc = "done" /\ saleReq.result # "ok") =>
            SaleResponse = 201 /\ saleReq.doc \in sales)
    /\ [](SumRows(inventory, DOMAIN inventory)
            = SumQuantity(AppliedPurchases) - AppliedSaleQuantity)

(* A purchase whose hook gave up after the last retried write conflict and *)
(* a sale that found no Inventory row, both answered 201.                  *)
C13_Witness ==
    /\ \E r \in DOMAIN reqs :
          /\ reqs[r].pc = "done" /\ reqs[r].result = "lost"
          /\ reqs[r].attempt = MaxRetries - 1
          /\ PurchaseResponse(r) = 201
    /\ saleReq.pc = "done" /\ saleReq.result = "lost"
    /\ SaleResponse = 201
    /\ saleReq.doc \in sales

----------------------------------------------------------------------------
(* updatePurchase inside a session: startTransaction, the three writes,    *)
(* commitTransaction, and abortTransaction in the catch.                   *)
MaxPrice == 2
MaxUpdates == 3

(* The request's color: a colour, none (null or ""), or left out. *)
Undefined == "undefined"

(* Where the request fails: nowhere, in the Purchase write, in the Product *)
(* write, in the Inventory write, or in commitTransaction.                 *)
Failures == {"none", "purchase", "product", "inventory", "commit"}

(* inventoryFilter = { product: purchase.product, color: color || null } *)
InventoryFilter(product, color) ==
    [product |-> product, hasColor |-> TRUE,
     color |-> IF color = Undefined THEN NoColor ELSE color]

(* updateData written by Purchase.findByIdAndUpdate. *)
UpdatedPurchase(purchase, quantity, color) ==
    IF color # Undefined
        THEN [purchase EXCEPT !.quantity = quantity, !.color = color]
        ELSE [purchase EXCEPT !.quantity = quantity]

(* Purchase.findByIdAndUpdate is called without { session }: its write is  *)
(* kept unless the call itself fails.                                      *)
WrittenOutsideSession(failure) == failure # "purchase"

(* purchaseSchema.post('findOneAndUpdate'): doc is the document the query  *)
(* returned, which with { new: true } is the updated one, so qtyDiff is    *)
(* the requested quantity minus itself.  Were it not 0, the hook would     *)
(* call Inventory.findOneAndUpdate; the model file does not bind Inventory *)
(* (nor Product), the call throws a ReferenceError and the hook's catch    *)
(* logs it.  No branch writes to the Inventory collection.                 *)
PurchasePostUpdate(inv, doc, quantity) ==
    LET qtyDiff == quantity - doc.quantity
    IN  IF qtyDiff # 0 THEN inv ELSE inv

UpdatePurchase(id, quantity, unitPrice, color, failure) ==
    /\ txCount < MaxUpdates
    /\ txCount' = txCount + 1
    /\ IF ~ \E d \in purchases : d.id = id
         THEN /\ last' = Outcome("updatePurchase", 404, NoDoc, 0)
              /\ UNCHANGED <<inventory, purchases, productPrices, unitPrices>>
         ELSE LET purchase == CHOOSE d \in purchases : d.id = id
                  oldQuantity == purchase.quantity
                  priceChanged == unitPrice # unitPrices[id]
                  quantityChanged == quantity # oldQuantity
                  qtyDiff == quantity - oldQuantity
                  thrown == \/ failure = "purchase"
                            \/ failure = "product" /\ priceChanged
                            \/ failure = "inventory" /\ quantityChanged
                            \/ failure = "commit"
                  written == WrittenOutsideSession(IF thrown THEN failure ELSE "none")
                  updatedPurchase == UpdatedPurchase(purchase, quantity, color)
              IN  /\ purchases' = IF written
                                    THEN (purchases \ {purchase}) \cup {updatedPurchase}
                                    ELSE purchases
                  /\ unitPrices' = IF written
                                     THEN [unitPrices EXCEPT ![id] = unitPrice]
                                     ELSE unitPrices
                  /\ productPrices' =
                        IF ~thrown /\ priceChanged
                            THEN [productPrices EXCEPT ![purchase.product] = unitPrice]
                            ELSE productPrices
                  /\ inventory' \in
                        IF ~thrown /\ quantityChanged
                            THEN FindOneAndUpdate(
                                     PurchasePostUpdate(inventory, updatedPurchase, quantity),
                                     InventoryFilter(purchase.product, color),
                                     qtyDiff, TRUE)
                            ELSE {PurchasePostUpdate(inventory, updatedPurchase, quantity)}
                  /\ last' = IF thrown
                               THEN Outcome("updatePurchase", 500, purchase, 0)
                               ELSE Outcome("updatePurchase", 200, updatedPurchase, 0)
    /\ UNCHANGED <<sales, nextPurchaseId, nextSaleId, anyDelete, reqs, ledgerVars,
                   retryVars, hookVars, productVars, walkVars>>

NextTx ==
    \E id \in 1..MaxPurchases, q \in 1..MaxQty, p \in 1..MaxPrice,
       c \in ColorInputs \cup {Undefined}, f \in Failures :
        UpdatePurchase(id, q, p, c, f)

(* One red purchase of one p1 has been created. *)
InitTx ==
    /\ inventory = <<UpsertRow(HookFilter("p1", "red"), 1)>>
    /\ purchases = {PurchaseDoc(1, "p1", "red", 1)}
    /\ nextPurchaseId = 2
    /\ sales = {}
    /\ nextSaleId = 1
    /\ anyDelete = FALSE
    /\ last = Outcome("none", 0, NoDoc, 0)
    /\ reqs = [r \in 1..NumRequests |-> IdleRequest]
    /\ ledger = {}
    /\ nextLedgerId = 1
    /\ RestInit

SpecTx == InitTx /\ [][NextTx]_vars

(* C14: the Purchase write, the Inventory upsert-increment and the Product *)
(* purchasePrice update of updatePurchase are applied all together or not  *)
(* at all: when the request fails, none of the three is visible.           *)
C14_UpdatePurchaseAtomic ==
    [][(txCount' # txCount /\ last'.status # 200) =>
          /\ purchases' = purchases
          /\ unitPrices' = unitPrices
          /\ inventory' = inventory
          /\ productPrices' = productPrices]_vars

----------------------------------------------------------------------------
(* Inventory queries and direct updates. *)

(* Values a request gives for minStockLevel; -1 fails the min: 0 validator. *)
MinStockInputs == {0 - 1, 0, 1}

(* Variant of ProductList that leaves isActive out of the query. *)
ProductListAll(active) == <<"p1", "p2">>

(* Product.find({ isActive: true }), in the order of the final sort by name. *)
ProductList(active) == SelectSeq(<<"p1", "p2">>, LAMBDA p : p \in active)

(* A persisted row as the listing returns it. *)
RealEntry(inv, i) ==
    [row |-> i, product |-> inv[i].product, color |-> inv[i].color,
     quantity |-> inv[i].quantity, minStockLevel |-> inv[i].minStockLevel,
     isVirtual |-> FALSE]

(* The synthesized row: _id virtual-<product>, quantity 0, minStockLevel 5, *)
(* isVirtual true.  The display colour matched by product code is left     *)
(* out: no colour carries a product's code.                                *)
VirtualEntry(product) ==
    [row |-> 0, product |-> product, color |-> NoColor,
     quantity |-> 0, minStockLevel |-> 5, isVirtual |-> TRUE]

(* inventoryEntries.find(entry => entry.product._id === product._id): the  *)
(* first entry of the product in the order Inventory.find() returned,      *)
(* which is any of the product's rows; the virtual row when it has none.   *)
EntryCandidates(inv, product) ==
    LET rows == {i \in DOMAIN inv : inv[i].product = product}
    IN  IF rows = {} THEN {VirtualEntry(product)}
        ELSE {RealEntry(inv, i) : i \in rows}

(* The lists products.map(...) can build. *)
FullInventory(inv, active) ==
    LET products == ProductList(active)
        entries == UNION {EntryCandidates(inv, p) : p \in Products}
    IN  {f \in [1..Len(products) -> entries] :
            \A k \in 1..Len(products) : f[k] \in EntryCandidates(inv, products[k])}

(* getInventory: nothing is written. *)
GetInventory ==
    /\ \E data \in FullInventory(inventory, activeProducts) :
          last' = Outcome("getInventory", 200, [id |-> 0, data |-> data], 0)
    /\ UNCHANGED <<stockVars, ledgerVars, restVars>>

(* Variant of LowStockMatches that lets a quantity of 0 through. *)
LowStockMatchesZero(row) ==
    row.quantity <= row.minStockLevel /\ row.quantity >= 0

(* { $expr: { $lte: ['$quantity', '$minStockLevel'] }, quantity: { $gt: 0 } } *)
LowStockMatches(row) ==
    row.quantity <= row.minStockLevel /\ row.quantity > 0

(* .sort({ quantity: 1 }): the orders of the matching rows by ascending    *)
(* quantity, rows of equal quantity in any order.                          *)
SortedByQuantity(inv, rows) ==
    {s \in [1..Cardinality(rows) -> rows] :
        /\ \A a \in DOMAIN s : \A b \in DOMAIN s : a # b => s[a] # s[b]
        /\ \A a \in DOMAIN s : \A b \in DOMAIN s :
              a < b => inv[s[a]].quantity <= inv[s[b]].quantity}

(* getLowStock: the persisted rows the query matches. *)
GetLowStock ==
    /\ \E order \in SortedByQuantity(inventory,
                       {i \in DOMAIN inventory : LowStockMatches(inventory[i])}) :
          last' = Outcome("getLowStock", 200,
                          [id |-> 0,
                           data |-> [k \in DOMAIN order |-> RealEntry(inventory, order[k])]],
                          0)
    /\ UNCHANGED <<stockVars, ledgerVars, restVars>>

(* updateInventory: quantity and minStockLevel are set as given, with      *)
(* runValidators (min: 0 on both).                                         *)
UpdateInventory(i, quantity, minStockLevel) ==
    /\ IF quantity < 0 \/ minStockLevel < 0
         THEN /\ last' = Outcome("updateInventory", 500, NoDoc, 0)
              /\ UNCHANGED inventory
       ELSE IF i \notin DOMAIN inventory
         THEN /\ last' = Outcome("updateInventory", 404, NoDoc, 0)
              /\ UNCHANGED inventory
       ELSE /\ inventory' = [inventory EXCEPT ![i].quantity = quantity,
                                              ![i].minStockLevel = minStockLevel]
            /\ last' = Outcome("updateInventory", 200, [id |-> i], 0)
    /\ UNCHANGED <<purchases, sales, nextPurchaseId, nextSaleId, anyDelete, reqs,
                   ledgerVars, restVars>>

(* deleteProduct: isActive is set to false. *)
DeleteProduct(product) ==
    /\ activeProducts' = activeProducts \ {product}
    /\ last' = Outcome("deleteProduct", 200, [id |-> 0, product |-> product], 0)
    /\ UNCHANGED <<stockVars, ledgerVars, retryVars, hookVars, txVars, walkVars>>

NextInventory ==
    \/ \E k \in Keys, q \in 1..MaxQty : CreatePurchase(k[1], k[2], q)
    \/ \E k \in Keys, q \in 1..MaxQty : CreateSale(k[1], k[2], 2 * q)
    \/ GetInventory
    \/ GetLowStock
    \/ \E i \in 1..(MaxPurchases + 1), q \in (0 - 1)..MaxQty, m \in MinStockInputs :
          UpdateInventory(i, q, m)
    \/ \E p \in Products : DeleteProduct(p)

SpecInventory == Init /\ [][NextInventory]_vars

(* C15: the inventory listing holds exactly one row for every active       *)
(* product and none for another product: a persisted Inventory row of the  *)
(* product when it has one, otherwise a synthesized row with quantity 0,   *)
(* minStockLevel 5 and isVirtual set; listing writes nothing to the        *)
(* Inventory collection.                                                   *)
C15_ListingOneRowPerActiveProduct ==
    /\ [](Succeeded(last, "getInventory") =>
            \A p \in Products :
                LET data == last.doc.data
                    idx == {k \in DOMAIN data : data[k].product = p}
                    rows == {i \in DOMAIN inventory : inventory[i].product = p}
                IN  IF p \notin activeProducts THEN idx = {}
                    ELSE /\ Cardinality(idx) = 1
                         /\ \A k \in idx :
                              IF rows # {}
                                THEN /\ ~data[k].isVirtual
                                     /\ data[k].row \in rows
                                     /\ data[k].quantity = inventory[data[k].row].quantity
                                     /\ data[k].color = inventory[data[k].row].color
                                     /\ data[k].minStockLevel
                                          = inventory[data[k].row].minStockLevel
                                ELSE /\ data[k].isVirtual
                                     /\ data[k].quantity = 0
                                     /\ data[k].minStockLevel = 5)
    /\ [][last'.op = "getInventory" => inventory' = inventory]_vars

(* A listing with a persisted row for one product and a virtual row for    *)
(* the other.                                                              *)
C15_Witness ==
    /\ Succeeded(last, "getInventory")
    /\ Len(last.doc.data) = 2
    /\ \E k \in DOMAIN last.doc.data : last.doc.data[k].isVirtual
    /\ \E k \in DOMAIN last.doc.data :
          ~last.doc.data[k].isVirtual /\ last.doc.data[k].quantity > 0

(* C16: the low-stock query returns exactly the persisted Inventory rows   *)
(* with 0 < quantity <= minStockLevel: no row with quantity 0 or below, no *)
(* row with quantity above minStockLevel, and every row inside the bound.  *)
C16_LowStockExactBoundary ==
    Succeeded(last, "getLowStock") =>
        LET data == last.doc.data
            returned == {data[k].row : k \in DOMAIN data}
        IN  /\ Cardinality(returned) = Len(data)
            /\ \A i \in DOMAIN inventory :
                  i \in returned <=>
                      (0 < inventory[i].quantity
                       /\ inventory[i].quantity <= inventory[i].minStockLevel)
            /\ returned \subseteq DOMAIN inventory

(* One row is returned and another, whose quantity is above its            *)
(* minStockLevel, is not.                                                  *)
C16_Witness ==
    /\ Succeeded(last, "getLowStock")
    /\ Len(last.doc.data) = 1
    /\ \E i \in DOMAIN inventory :
          /\ inventory[i].quantity > inventory[i].minStockLevel
          /\ \A k \in DOMAIN last.doc.data : last.doc.data[k].row # i

----------------------------------------------------------------------------
(* Ledger queries. *)

(* Dates a query names: an instant of the first day and the last instant;  *)
(* None stands for a parameter left out.                                   *)
None == 0 - 1
QueryDates == {1, MaxDate}

(* startDate and endDate of a range query: both left out, one left out,    *)
(* the first day, the last day, and the whole span.                        *)
QueryRanges ==
    {<<None, None>>, <<1, None>>, <<1, 1>>, <<MaxDate, MaxDate>>, <<1, MaxDate>>}

(* end.setHours(23, 59, 59, 999) *)
EndOfDay(date) == StartOfDay(date) + TicksPerDay - 1

VendorRank(vendor) == IF vendor = "v1" THEN 1 ELSE 2

(* Variant of SortedAscending whose sort is by descending date. *)
SortedDescending(E) ==
    {s \in [1..Cardinality(E) -> E] :
        /\ \A a \in DOMAIN s : \A b \in DOMAIN s : a # b => s[a] # s[b]
        /\ \A a \in DOMAIN s : \A b \in DOMAIN s :
              a < b => \/ VendorRank(s[a].vendor) < VendorRank(s[b].vendor)
                       \/ /\ s[a].vendor = s[b].vendor
                          /\ s[a].date >= s[b].date}

(* .sort({ vendor: 1, date: 1 }): the orders a sort can return;            *)
(* transactions equal in both keys come in any order.  For one vendor      *)
(* this is .sort({ date: 1 }).                                             *)
SortedAscending(E) ==
    {s \in [1..Cardinality(E) -> E] :
        /\ \A a \in DOMAIN s : \A b \in DOMAIN s : a # b => s[a] # s[b]
        /\ \A a \in DOMAIN s : \A b \in DOMAIN s :
              a < b => \/ VendorRank(s[a].vendor) < VendorRank(s[b].vendor)
                       \/ /\ s[a].vendor = s[b].vendor
                          /\ s[a].date <= s[b].date}

(* query = { vendor }, with date: { $gte: start, $lte: end } when both     *)
(* startDate and endDate are given.                                        *)
VendorQuery(L, vendor, startDate, endDate) ==
    {t \in L :
        /\ t.vendor = vendor
        /\ (startDate # None /\ endDate # None) =>
              (StartOfDay(startDate) <= t.date /\ t.date <= EndOfDay(endDate))}

(* getVendorLedger *)
GetVendorLedger(vendor, startDate, endDate) ==
    /\ \E transactions \in SortedAscending(VendorQuery(ledger, vendor, startDate, endDate)) :
          IF Cardinality(DOMAIN transactions) = 0
            THEN last' = Outcome("getVendorLedger", 404,
                     [id |-> 0, vendor |-> vendor,
                      startDate |-> startDate, endDate |-> endDate], 0)
            ELSE last' = Outcome("getVendorLedger", 200,
                     [id |-> 0, vendor |-> vendor,
                      startDate |-> startDate, endDate |-> endDate,
                      openingBalance |-> transactions[1].openingBalance,
                      closingBalance |->
                          transactions[Cardinality(DOMAIN transactions)].closingBalance,
                      totalTransactions |-> Cardinality(DOMAIN transactions),
                      data |-> transactions], 0)
    /\ UNCHANGED <<stockVars, ledgerVars, restVars>>

(* Ledger.find({ date: { $gte: startOfDay, $lte: endOfDay } }) *)
DayTransactions(L, date) ==
    {t \in L : StartOfDay(date) <= t.date /\ t.date <= EndOfDay(date)}

(* for (const txn of transactions) { ... } from the k-th transaction on. *)
RECURSIVE SummaryLoop(_, _, _)
SummaryLoop(transactions, k, summary) ==
    IF k > Cardinality(DOMAIN transactions) THEN summary
    ELSE LET txn == transactions[k]
             entry == IF txn.vendor \in DOMAIN summary
                        THEN summary[txn.vendor]
                        ELSE [vendor |-> txn.vendor,
                              openingBalance |-> txn.openingBalance,
                              closingBalance |-> txn.closingBalance,
                              totalReceivable |-> 0, totalPayable |-> 0,
                              transactionCount |-> 0]
             counted == [entry EXCEPT !.closingBalance = txn.closingBalance,
                                      !.transactionCount = @ + 1]
             totalled == IF txn.transactionType = "receivable"
                           THEN [counted EXCEPT !.totalReceivable = @ + txn.amount]
                           ELSE [counted EXCEPT !.totalPayable = @ + txn.amount]
         IN  SummaryLoop(transactions, k + 1,
                 [v \in DOMAIN summary \cup {txn.vendor} |->
                     IF v = txn.vendor THEN totalled ELSE summary[v]])

(* The summaries getDayEndSummary can compute on a ledger. *)
DayEndSummaries(L, date) ==
    {SummaryLoop(transactions, 1, [v \in {} |-> 0]) :
        transactions \in SortedAscending(DayTransactions(L, date))}

(* getDayEndSummary *)
GetDayEndSummary(date) ==
    /\ \E summary \in DayEndSummaries(ledger, date) :
          last' = Outcome("getDayEndSummary", 200,
                          [id |-> 0, date |-> date, data |-> summary], 0)
    /\ UNCHANGED <<stockVars, ledgerVars, restVars>>

NextLedgerQuery ==
    \/ \E x \in LedgerInputs, ty \in {"payable", "receivable"}, a \in 1..MaxAmount :
          AddTransaction(x[1], ty, a, x[2])
    \/ \E id \in 1..MaxLedger : DeleteTransaction(id)
    \/ \E v \in Vendors, range \in QueryRanges :
          GetVendorLedger(v, range[1], range[2])
    \/ \E d \in QueryDates : GetDayEndSummary(d)

SpecLedgerQuery == Init /\ [][NextLedgerQuery]_vars

----------------------------------------------------------------------------
(* Vocabulary of the query properties *)
RECURSIVE SumAmounts(_)
SumAmounts(S) ==
    IF S = {} THEN 0
    ELSE LET t == CHOOSE x \in S : TRUE
         IN  t.amount + SumAmounts(S \ {t})

(* The vendor's entries a range query asks for: all of them, or those on   *)
(* the calendar days from startDate's to endDate's when both are given.    *)
AskedFor(L, vendor, startDate, endDate) ==
    {t \in L :
        /\ t.vendor = vendor
        /\ (startDate # None /\ endDate # None) =>
              (DayOf(startDate) <= DayOf(t.date) /\ DayOf(t.date) <= DayOf(endDate))}

(* C17: the vendor-ledger range query returns the vendor's transactions of *)
(* the range in ascending date order, with the first returned entry's      *)
(* openingBalance as opening balance and the last returned entry's         *)
(* closingBalance as closing balance; with no transaction in the range it  *)
(* answers not found.                                                      *)
C17_VendorLedgerRange ==
    last.op = "getVendorLedger" =>
        LET asked == AskedFor(ledger, last.doc.vendor,
                              last.doc.startDate, last.doc.endDate)
        IN  IF asked = {} THEN last.status = 404
            ELSE LET data == last.doc.data
                     n == Cardinality(DOMAIN data)
                 IN  /\ last.status = 200
                     /\ DOMAIN data = 1..n
                     /\ n = Cardinality(asked)
                     /\ {data[k] : k \in 1..n} = asked
                     /\ \A a \in 1..n : \A b \in 1..n :
                           a < b => data[a].date <= data[b].date
                     /\ last.doc.openingBalance = data[1].openingBalance
                     /\ last.doc.closingBalance = data[n].closingBalance

(* A range over the first day returns two entries of different instants    *)
(* and leaves out an entry of the vendor on a later day.                   *)
C17_Witness ==
    /\ Succeeded(last, "getVendorLedger")
    /\ last.doc.startDate # None /\ last.doc.endDate # None
    /\ Cardinality(DOMAIN last.doc.data) = 2
    /\ last.doc.data[1].date < last.doc.data[2].date
    /\ \E t \in ledger :
          t.vendor = last.doc.vendor /\ DayOf(t.date) > DayOf(last.doc.endDate)

(* C18: the day-end summary is a function of the date and the stored       *)
(* transactions: one entry per vendor with a transaction that day, with    *)
(* the openingBalance of its first transaction of the day in date order,   *)
(* the closingBalance of its last one, the totals of the amounts per type  *)
(* and the count; on an unchanged ledger it can return only one value, and *)
(* it changes no stored entry.                                             *)
C18_DayEndSummaryDeterministic ==
    /\ [](Succeeded(last, "getDayEndSummary") =>
            LET data == last.doc.data
                day == {t \in ledger : DayOf(t.date) = DayOf(last.doc.date)}
            IN  /\ DOMAIN data = {t.vendor : t \in day}
                /\ \A v \in DOMAIN data :
                      LET own == {t \in day : t.vendor = v}
                      IN  /\ data[v].transactionCount = Cardinality(own)
                          /\ data[v].totalReceivable =
                                SumAmounts({t \in own : t.transactionType = "receivable"})
                          /\ data[v].totalPayable =
                                SumAmounts({t \in own : t.transactionType = "payable"})
                          /\ \E t \in own :
                                /\ \A u \in own : t.date <= u.date
                                /\ data[v].openingBalance = t.openingBalance
                          /\ \E t \in own :
                                /\ \A u \in own : u.date <= t.date
                                /\ data[v].closingBalance = t.closingBalance)
    /\ [](\A d \in QueryDates : Cardinality(DayEndSummaries(ledger, d)) = 1)
    /\ [][last'.op = "getDayEndSummary" => ledger' = ledger]_vars

(* ---------------------------------------------------------------------- *)
(* Validation of create requests                                           *)
(* ---------------------------------------------------------------------- *)

(* A create request was answered 400 and no collection was written. *)
Rejected400 ==
    /\ last'.status = 400
    /\ UNCHANGED <<inventory, purchases, sales, ledger,
                   nextPurchaseId, nextSaleId, nextLedgerId>>

(* addTransaction either writes one entry with a vendor, a known type and *)
(* a positive amount and answers 201, or answers 400 and writes nothing.  *)
LedgerValidationRejects ==
    [][last'.op = "addTransaction" /\ last' # last =>
          \/ Rejected400
          \/ /\ last'.status = 201
             /\ ledger' = ledger \cup {last'.doc}
             /\ last'.doc.vendor \in Vendors
             /\ last'.doc.transactionType \in {"payable", "receivable"}
             /\ last'.doc.amount > 0]_vars

(* C19: a createPurchase or createSale request whose quantity is zero or   *)
(* negative is answered with status 400 and writes nothing to the          *)
(* purchases, sales, inventory or ledger collections.                      *)
C19_InvalidCreateRejected400 ==
    [][/\ \A k \in Keys, q \in (0 - 1)..0 :
             CreatePurchase(k[1], k[2], q) => Rejected400
       /\ \A k \in Keys, h \in (0 - 2)..0 :
             CreateSale(k[1], k[2], h) => Rejected400]_vars

(* ---------------------------------------------------------------------- *)
(* Frame of updateTransaction and deleteTransaction                        *)
(* ---------------------------------------------------------------------- *)

ValidStatuses == {"pending", "completed", "cancelled"}

(* Entry u is entry t with at most its status changed. *)
SameButStatus(t, u) == [u EXCEPT !.status = t.status] = t

(* The ledger after the step holds the same entries as before, none of   *)
(* them changed except the status of entry id, which is now status.      *)
OnlyStatusOf(id, status) ==
    /\ \A t \in ledger : t.id # id => t \in ledger'
    /\ \A t \in ledger : t.id = id =>
          \E u \in ledger' : u.id = id /\ u.status = status /\ SameButStatus(t, u)
    /\ Cardinality(ledger') = Cardinality(ledger)

(* C20: updateTransaction with a status other than pending, completed or  *)
(* cancelled answers 400 and leaves the ledger as it was; with a valid    *)
(* status it changes nothing but the status of the targeted entry;        *)
(* deleteTransaction removes the targeted entry and nothing else.  Every  *)
(* other entry keeps its openingBalance and closingBalance.               *)
C20_UpdateDeleteFrame ==
    [][/\ \A id \in 1..MaxLedger, status \in {"cancelled", "other"} :
             UpdateTransaction(id, status) =>
                 IF status \in ValidStatuses
                   THEN OnlyStatusOf(id, status)
                   ELSE last'.status = 400 /\ ledger' = ledger
       /\ \A id \in 1..MaxLedger :
             DeleteTransaction(id) => ledger' = {t \in ledger : t.id # id}]_vars

(* A transaction was cancelled while a later transaction of the same      *)
(* vendor, whose opening balance was derived from it, is on the ledger.   *)
C20_Witness ==
    /\ last.op = "updateTransaction"
    /\ last.status = 200
    /\ last.doc \in ledger
    /\ last.doc.status = "cancelled"
    /\ \E t \in ledger :
          /\ t.id # last.doc.id
          /\ t.vendor = last.doc.vendor
          /\ t.basis = {last.doc.id}
          /\ t.openingBalance = last.doc.closingBalance
          /\ t.status = "completed"

----------------------------------------------------------------------------
(* Overlapping sale creations.  Every awaited store call of createSale and *)
(* of the sale's post-save hook is a suspension point: the stock check,    *)
(* Sale.create, the Inventory decrement, Purchase.find, and each           *)
(* Purchase.findByIdAndUpdate of the FIFO loop.                            *)

(* Requested sale quantities, in half units: 0.5, 1 and 2. *)
SaleHalves == {1, 2, 4}

WalkFilter(r) == HookFilter(walks[r].doc.product, walks[r].doc.color)

(* createSale up to the stock check: Inventory.findOne(stockFilter) and    *)
(* the comparison with the requested quantity.                             *)
SaleCheckStock(r, product, color, halves) ==
    /\ walks[r].pc = "idle"
    /\ IF r = 1 THEN TRUE ELSE walks[r - 1].pc # "idle"
    /\ LET filter == HookFilter(product, color)
           request == [walks[r] EXCEPT
                          !.halves = halves,
                          !.doc = [id |-> 0, product |-> product, color |-> color,
                                   quantity |-> ParseInt(halves)]]
       IN  \/ /\ InsufficientStock(inventory, filter, halves)
              /\ walks' = [walks EXCEPT ![r] = [request EXCEPT !.pc = "rejected"]]
           \/ \E i \in MatchingRows(inventory, filter) :
                 /\ 2 * inventory[i].quantity >= halves
                 /\ walks' = [walks EXCEPT ![r] =
                        [request EXCEPT !.pc = "create",
                                        !.available = inventory[i].quantity]]
    /\ UNCHANGED <<stockVars, last, ledgerVars, nonWalkVars>>

(* Sale.create(saleData): the schema validates the parsed quantity, then   *)
(* the document is saved and the post-save hook entered.                   *)
SaleCreate(r) ==
    /\ walks[r].pc = "create"
    /\ IF SaleQuantityValid(walks[r].doc.quantity)
         THEN LET doc == [walks[r].doc EXCEPT !.id = nextSaleId]
              IN  /\ sales' = sales \cup {doc}
                  /\ nextSaleId' = nextSaleId + 1
                  /\ walks' = [walks EXCEPT ![r].pc = "hook", ![r].doc = doc]
         ELSE /\ walks' = [walks EXCEPT ![r].pc = "failed"]
              /\ UNCHANGED <<sales, nextSaleId>>
    /\ UNCHANGED <<inventory, purchases, nextPurchaseId, anyDelete, reqs, last,
                   ledgerVars, nonWalkVars>>

(* Hook step 1: the Inventory decrement. *)
SaleHookInventory(r) ==
    /\ walks[r].pc = "hook"
    /\ inventory' \in SalePostSaveInventory(inventory, walks[r].doc)
    /\ walks' = [walks EXCEPT ![r].pc = "find"]
    /\ UNCHANGED <<purchases, sales, nextPurchaseId, nextSaleId, anyDelete, reqs,
                   last, ledgerVars, nonWalkVars>>

(* Hook step 2: Purchase.find(filter).sort({ date: 1 }).select('_id quantity') *)
(* and  let remainingQty = doc.quantity.                                   *)
SaleHookFind(r) ==
    /\ walks[r].pc = "find"
    /\ LET list == SortByDate(MatchingPurchases(purchases, WalkFilter(r)))
       IN  walks' = [walks EXCEPT ![r].pc = "walk", ![r].fetched = list,
                                  ![r].rest = list,
                                  ![r].remainingQty = walks[r].doc.quantity]
    /\ UNCHANGED <<stockVars, last, ledgerVars, nonWalkVars>>

(* Variant of Deduct that takes the whole remaining quantity. *)
DeductAll(remainingQty, quantity) == remainingQty

(* const deduct = Math.min(remainingQty, purchase.quantity), where         *)
(* purchase is the entry as Purchase.find returned it.                     *)
Deduct(remainingQty, quantity) == Min(remainingQty, quantity)

(* One iteration of the FIFO loop: the break test, then the $inc of the    *)
(* visited purchase by the amount computed from the fetched quantity.      *)
SaleHookWalk(r) ==
    /\ walks[r].pc = "walk"
    /\ IF walks[r].rest = <<>> \/ walks[r].remainingQty <= 0
         THEN /\ walks' = [walks EXCEPT ![r].pc = "done"]
              /\ UNCHANGED purchases
         ELSE LET purchase == Head(walks[r].rest)
                  deduct == Deduct(walks[r].remainingQty, purchase.quantity)
              IN  /\ purchases' = ApplyDeductions(purchases, purchase.id :> deduct)
                  /\ walks' = [walks EXCEPT ![r].rest = Tail(walks[r].rest),
                                            ![r].remainingQty = @ - deduct]
    /\ UNCHANGED <<inventory, sales, nextPurchaseId, nextSaleId, anyDelete, reqs,
                   last, ledgerVars, nonWalkVars>>

NextSaleConc ==
    \/ \E r \in 1..NumRequests, k \in Keys, h \in SaleHalves :
          SaleCheckStock(r, k[1], k[2], h)
    \/ \E r \in 1..NumRequests : SaleCreate(r)
    \/ \E r \in 1..NumRequests : SaleHookInventory(r)
    \/ \E r \in 1..NumRequests : SaleHookFind(r)
    \/ \E r \in 1..NumRequests : SaleHookWalk(r)

(* The requests start on the collections two earlier purchases of red p1   *)
(* left behind.                                                            *)
InitSaleConc ==
    /\ \E q1 \in 1..MaxQty, q2 \in 1..MaxQty :
          /\ purchases = {PurchaseDoc(1, "p1", "red", q1),
                          PurchaseDoc(2, "p1", "red", q2)}
          /\ inventory = <<UpsertRow(HookFilter("p1", "red"), q1 + q2)>>
    /\ nextPurchaseId = 3
    /\ sales = {}
    /\ nextSaleId = 1
    /\ anyDelete = FALSE
    /\ last = Outcome("none", 0, NoDoc, 0)
    /\ reqs = [r \in 1..NumRequests |-> IdleRequest]
    /\ ledger = {}
    /\ nextLedgerId = 1
    /\ RestInit

SpecSaleConc == InitSaleConc /\ [][NextSaleConc]_vars

(* The slots whose sale has been saved and whose hook has ended. *)
WalksDone == {r \in DOMAIN walks : walks[r].pc = "done"}

AllWalksEnded ==
    \A r \in DOMAIN walks : walks[r].pc \in {"done", "rejected", "failed"}

(* What the loop of slot r takes from purchase id when it runs on the list *)
(* it fetched.                                                             *)
TakenFrom(r, id) ==
    LET deducted == FifoLoop(walks[r].fetched, walks[r].doc.quantity, EmptyMap).deducted
    IN  IF id \in DOMAIN deducted THEN deducted[id] ELSE 0

RECURSIVE SumTaken(_, _)
SumTaken(R, id) ==
    IF R = {} THEN 0
    ELSE LET r == CHOOSE x \in R : TRUE
         IN  TakenFrom(r, id) + SumTaken(R \ {r}, id)

(* C21: when the overlapping sales have ended, every purchase has lost,    *)
(* for each sale, the amount that sale's loop computed from the quantities *)
(* it had fetched, whatever the other sale took in between; so two sales   *)
(* that fetched the same quantity of a purchase both take it.              *)
C21_StaleFifoWalk ==
    AllWalksEnded =>
        \A d \in purchases : d.quantity = d.created - SumTaken(WalksDone, d.id)

(* Two sales have ended that fetched the same purchase with the same       *)
(* quantity, both took from it, and the purchase is now below zero.        *)
C21_Witness ==
    /\ WalksDone = DOMAIN walks
    /\ \E d \in purchases :
          /\ d.quantity < 0
          /\ \A r \in DOMAIN walks :
                /\ TakenFrom(r, d.id) > 0
                /\ \E i \in DOMAIN walks[r].fetched :
                      /\ walks[r].fetched[i].id = d.id
                      /\ walks[r].fetched[i].quantity = d.created

----------------------------------------------------------------------------
(* Restoration of purchases on sale deletion *)

(* The purchases of the (product, color) of doc. *)
OwnPurchases(doc) == {d \in purchases : DocKey(d) = DocKey(doc)}

(* The step adds quantity to purchase d and changes no other purchase. *)
OnlyPurchaseGains(d, quantity) ==
    purchases' = (purchases \ {d}) \cup {[d EXCEPT !.quantity = @ + quantity]}

(* The deleted sale's quantity went to the oldest purchase of its own key, *)
(* when the key has a purchase, and to no other purchase.                  *)
RestoresOldestOwn(sale) ==
    OwnPurchases(sale) # {} =>
        \E d \in OwnPurchases(sale) :
            /\ \A e \in OwnPurchases(sale) : d.date <= e.date
            /\ OnlyPurchaseGains(d, sale.quantity)

(* C22: a successful deleteSale of a sale of quantity Q adds Q to the      *)
(* oldest-dated purchase of the sale's (product, color) and leaves every   *)
(* other purchase as it was.                                               *)
C22_DeleteSaleRestoresOldest ==
    [][\A id \in 1..MaxSales :
          (DeleteSale(id) /\ last'.status = 200) => RestoresOldestOwn(last'.doc)]_vars

(* The same for sales that carry a color. *)
ColoredDeleteSaleRestoresOldest ==
    [][\A id \in 1..MaxSales :
          (DeleteSale(id) /\ last'.status = 200 /\ last'.doc.color # NoColor)
              => RestoresOldestOwn(last'.doc)]_vars

----------------------------------------------------------------------------
(* Purchase updates and the Inventory row of the purchase *)

(* updatePurchase without a session: the Purchase write and its hook; the  *)
(* controller itself does not touch Inventory or Product.                  *)
UpdatePurchasePlain(id, quantity, unitPrice, color) ==
    /\ txCount < MaxUpdates
    /\ txCount' = txCount + 1
    /\ IF ~ \E d \in purchases : d.id = id
         THEN /\ last' = Outcome("updatePurchase", 404, NoDoc, 0)
              /\ UNCHANGED <<inventory, purchases, unitPrices>>
         ELSE LET purchase == CHOOSE d \in purchases : d.id = id
                  updatedPurchase == UpdatedPurchase(purchase, quantity, color)
              IN  /\ purchases' = (purchases \ {purchase}) \cup {updatedPurchase}
                  /\ unitPrices' = [unitPrices EXCEPT ![id] = unitPrice]
                  /\ inventory' = PurchasePostUpdate(inventory, updatedPurchase, quantity)
                  /\ last' = Outcome("updatePurchase", 200, updatedPurchase, 0)
    /\ UNCHANGED <<sales, nextPurchaseId, nextSaleId, anyDelete, reqs, ledgerVars,
                   productPrices, retryVars, hookVars, productVars, walkVars>>

NextUpdate ==
    \/ \E id \in 1..MaxPurchases, q \in 1..MaxQty, p \in 1..MaxPrice,
          c \in ColorInputs \cup {Undefined} :
          UpdatePurchase(id, q, p, c, "none")
    \/ \E id \in 1..MaxPurchases, q \in 1..MaxQty, p \in 1..MaxPrice,
          c \in ColorInputs \cup {Undefined} :
          UpdatePurchasePlain(id, q, p, c)

(* One purchase of one p1, with or without a color, has been created. *)
InitUpdate ==
    /\ \E c \in ColorInputs :
          /\ inventory = <<UpsertRow(HookFilter("p1", c), 1)>>
          /\ purchases = {PurchaseDoc(1, "p1", c, 1)}
    /\ nextPurchaseId = 2
    /\ sales = {}
    /\ nextSaleId = 1
    /\ anyDelete = FALSE
    /\ last = Outcome("none", 0, NoDoc, 0)
    /\ reqs = [r \in 1..NumRequests |-> IdleRequest]
    /\ ledger = {}
    /\ nextLedgerId = 1
    /\ RestInit

SpecUpdate == InitUpdate /\ [][NextUpdate]_vars

(* The request keeps the color of purchase d: it names it or leaves it out. *)
KeepsColor(d, color) == color = Undefined \/ color = d.color

(* The Inventory quantity of the key of purchase d changes by quantity     *)
(* minus the quantity d holds.                                             *)
OwnRowAdjusted(d, quantity) ==
    /\ KeyQuantity(inventory', d.product, d.color)
          = KeyQuantity(inventory, d.product, d.color) + (quantity - d.quantity)
    /\ \A k \in Products \X ColorInputs :
          k # <<d.product, d.color>> =>
              KeyQuantity(inventory', k[1], k[2]) = KeyQuantity(inventory, k[1], k[2])

(* C23: an update of a purchase's quantity that keeps its color, whether   *)
(* the request names the color or leaves it out, changes the Inventory     *)
(* quantity of the purchase's own (product, color) by the new quantity     *)
(* minus the old one, and no other key's.                                  *)
C23_UpdatePurchaseAdjustsOwnRow ==
    [][\A d \in purchases, q \in 1..MaxQty, p \in 1..MaxPrice,
          c \in ColorInputs \cup {Undefined} :
          (/\ KeepsColor(d, c)
           /\ \/ UpdatePurchase(d.id, q, p, c, "none")
              \/ UpdatePurchasePlain(d.id, q, p, c))
          => OwnRowAdjusted(d, q)]_vars

(* The same for the session variant when the request names the color. *)
NamedColorUpdateAdjustsOwnRow ==
    [][\A d \in purchases, q \in 1..MaxQty, p \in 1..MaxPrice :
          (d.color # NoColor /\ UpdatePurchase(d.id, q, p, d.color, "none"))
              => OwnRowAdjusted(d, q)]_vars

----------------------------------------------------------------------------
(* withRetry and errors that are no write conflict *)

----------------------------------------------------------------------------
(* Fractional sale quantities *)

(* Twice the total quantity of the Inventory rows, and of the purchases. *)
InventoryHalves(inv) == 2 * SumRows(inv, DOMAIN inv)
PurchaseHalves(ps) == 2 * SumQuantity(ps)

(* C25: a recorded sale stores the requested quantity, whole or fractional, *)
(* Inventory loses that quantity and the purchases lose it up to the        *)
(* reported shortfall; and a request for 0.5 that the stock covers is       *)
(* recorded.                                                                *)
C25_SaleKeepsRequestedQuantity ==
    [][\A k \in Keys, h \in 1..(2 * MaxQty) :
          CreateSale(k[1], k[2], h) =>
              /\ last'.status = 201 =>
                    /\ 2 * last'.doc.quantity = h
                    /\ InventoryHalves(inventory) - InventoryHalves(inventory') = h
                    /\ PurchaseHalves(purchases) - PurchaseHalves(purchases')
                          + 2 * last'.shortfall = h
              /\ (h = 1 /\ ~InsufficientStock(inventory, HookFilter(k[1], k[2]), h))
                    => last'.status = 201]_vars

(* What the code does hold to: every recorded sale stores parseInt of the  *)
(* request, at least 1, and Inventory and purchases move by that.          *)
SaleKeepsParsedQuantity ==
    [][\A k \in Keys, h \in 1..(2 * MaxQty) :
          (CreateSale(k[1], k[2], h) /\ last'.status = 201) =>
              /\ last'.doc.quantity = ParseInt(h)
              /\ last'.doc.quantity >= 1
              /\ InventoryHalves(inventory) - InventoryHalves(inventory')
                    = 2 * ParseInt(h)
              /\ PurchaseHalves(purchases) - PurchaseHalves(purchases')
                    + 2 * last'.shortfall = 2 * ParseInt(h)]_vars

----------------------------------------------------------------------------
(* Requests handled one at a time, all for one (product, color) *)

OneKey == <<"p1", "red">>

NextOneKey ==
    \/ \E q \in 0..MaxQty : CreatePurchase(OneKey[1], OneKey[2], q)
    \/ \E h \in 0..(2 * MaxQty) : CreateSale(OneKey[1], OneKey[2], h)
    \/ \E id \in 1..MaxPurchases : DeletePurchase(id)
    \/ \E id \in 1..MaxSales : DeleteSale(id)

SpecOneKey == Init /\ [][NextOneKey]_vars

(* C26: with every request made for one (product, color) and handled one   *)
(* at a time, the remaining quantities of the purchases of that key add up *)
(* to the Inventory quantity of the key.                                   *)
C26_PurchasesMatchInventory ==
    SumQuantity(purchases) = KeyQuantity(inventory, OneKey[1], OneKey[2])

----------------------------------------------------------------------------
(* A sale created and deleted again.  Besides the purchase and sale        *)
(* requests for the one key, a direct stock correction (updateInventory)   *)
(* can set the Inventory quantity above what the purchases hold.           *)

NextRoundTrip ==
    \/ NextOneKey
    \/ \E i \in 1..MaxPurchases, q \in 0..MaxQty :
          UpdateInventory(i, q, DefaultMinStockLevel)

SpecRoundTrip == Init /\ [][NextRoundTrip]_vars

(* Total remaining quantity of the purchases of ps with the key of doc. *)
OwnPurchaseQuantity(ps, doc) == SumQuantity({d \in ps : DocKey(d) = DocKey(doc)})

(* The sale that outcome reports is the one created by the previous        *)
(* request, and this step deletes it.                                      *)
DeletesSaleJustCreated(id) ==
    /\ Succeeded(last, "createSale")
    /\ last.doc.id = id
    /\ DeleteSale(id)
    /\ last'.status = 200

(* C27: deleting a sale right after it was created puts the Inventory      *)
(* quantity and the total purchase quantity of the sale's key back to      *)
(* their values before the sale: Inventory regains the sale's quantity and *)
(* the purchases regain what the sale took from them, the sale's quantity  *)
(* less the shortfall it reported.                                         *)
C27_SaleRoundTrip ==
    [][\A id \in 1..MaxSales :
          DeletesSaleJustCreated(id) =>
              /\ KeyQuantity(inventory', last.doc.product, last.doc.color)
                    = KeyQuantity(inventory, last.doc.product, last.doc.color)
                        + last.doc.quantity
              /\ OwnPurchaseQuantity(purchases', last.doc)
                    = OwnPurchaseQuantity(purchases, last.doc)
                        + (last.doc.quantity - last.shortfall)]_vars

(* The Inventory half, and the purchase half for sales the purchases       *)
(* covered in full.                                                        *)
CoveredSaleRoundTrip ==
    [][\A id \in 1..MaxSales :
          DeletesSaleJustCreated(id) =>
              /\ KeyQuantity(inventory', last.doc.product, last.doc.color)
                    = KeyQuantity(inventory, last.doc.product, last.doc.color)
                        + last.doc.quantity
              /\ last.shortfall = 0 =>
                    OwnPurchaseQuantity(purchases', last.doc)
                        = OwnPurchaseQuantity(purchases, last.doc) + last.doc.quantity]_vars

----------------------------------------------------------------------------
(* Two overlapping delete requests for one document.  Every awaited store  *)
(* call is a suspension point: findById, findByIdAndDelete, and the calls  *)
(* of the post-delete hook.                                                *)

Collection(kind) == IF kind = "sale" THEN sales ELSE purchases

(* Variant of FindByIdAndDelete that hands back the document the request   *)
(* read earlier, whether or not it is still stored.                        *)
FindByIdAndDeleteStale(collection, id, seen) == seen

(* Model.findByIdAndDelete(id): one atomic find-and-remove; it returns the *)
(* stored document, or null (NoDoc) when none has that _id.  seen, what    *)
(* findById returned to the request, plays no part.                        *)
FindByIdAndDelete(collection, id, seen) ==
    IF \E d \in collection : d.id = id
        THEN CHOOSE d \in collection : d.id = id
        ELSE NoDoc

(* deleteSale / deletePurchase up to findById: 404 when absent.  The       *)
(* second request is for the document of the first.                        *)
DeleteFind(r, kind, id) ==
    /\ walks[r].pc = "idle"
    /\ IF r = 1 THEN TRUE
       ELSE /\ walks[r - 1].pc # "idle"
            /\ kind = walks[1].kind
            /\ id = walks[1].target
    /\ IF \E d \in Collection(kind) : d.id = id
         THEN walks' = [walks EXCEPT ![r].pc = "delete", ![r].kind = kind,
                                    ![r].target = id,
                                    ![r].doc = CHOOSE d \in Collection(kind) : d.id = id]
         ELSE walks' = [walks EXCEPT ![r].pc = "notfound", ![r].kind = kind,
                                    ![r].target = id]
    /\ UNCHANGED <<stockVars, last, ledgerVars, nonWalkVars>>

(* findByIdAndDelete, and the entry of the post hook:  if (!doc) return. *)
DeleteRemove(r) ==
    /\ walks[r].pc = "delete"
    /\ LET kind == walks[r].kind
           id == walks[r].target
           doc == FindByIdAndDelete(Collection(kind), id, walks[r].doc)
       IN  /\ sales' = IF kind = "sale" THEN {d \in sales : d.id # id} ELSE sales
           /\ purchases' = IF kind = "purchase"
                             THEN {d \in purchases : d.id # id} ELSE purchases
           /\ anyDelete' = TRUE
           /\ walks' = [walks EXCEPT
                  ![r].doc = doc,
                  ![r].pc = IF doc = NoDoc THEN "done"
                            ELSE IF kind = "sale" THEN "restore" ELSE "revert"]
    /\ UNCHANGED <<inventory, nextPurchaseId, nextSaleId, reqs, last, ledgerVars,
                   nonWalkVars>>

(* Sale hook: restore Inventory. *)
DeleteSaleRestoreInventory(r) ==
    /\ walks[r].pc = "restore"
    /\ inventory' \in SalePostDeleteInventory(inventory, walks[r].doc)
    /\ walks' = [walks EXCEPT ![r].pc = "oldest", ![r].applied = @ + 1]
    /\ UNCHANGED <<purchases, sales, nextPurchaseId, nextSaleId, anyDelete, reqs,
                   last, ledgerVars, nonWalkVars>>

(* Sale hook: Purchase.findOne(filter).sort({ date: 1 }). *)
DeleteSaleFindOldest(r) ==
    /\ walks[r].pc = "oldest"
    /\ LET list == SortByDate(MatchingPurchases(purchases, WalkFilter(r)))
       IN  IF list = <<>>
             THEN walks' = [walks EXCEPT ![r].pc = "done"]
             ELSE walks' = [walks EXCEPT ![r].pc = "give",
                                        ![r].fetched = <<Head(list)>>]
    /\ UNCHANGED <<stockVars, last, ledgerVars, nonWalkVars>>

(* Sale hook: the $inc of the oldest purchase by the sale's quantity. *)
DeleteSaleRestorePurchase(r) ==
    /\ walks[r].pc = "give"
    /\ purchases' = ApplyDeductions(purchases,
                        Head(walks[r].fetched).id :> (0 - walks[r].doc.quantity))
    /\ walks' = [walks EXCEPT ![r].pc = "done"]
    /\ UNCHANGED <<inventory, sales, nextPurchaseId, nextSaleId, anyDelete, reqs,
                   last, ledgerVars, nonWalkVars>>

(* Purchase hook: revert Inventory by the deleted purchase's quantity. *)
DeletePurchaseRevert(r) ==
    /\ walks[r].pc = "revert"
    /\ inventory' \in PurchasePostDelete(inventory, walks[r].doc)
    /\ walks' = [walks EXCEPT ![r].pc = "done", ![r].applied = @ + 1]
    /\ UNCHANGED <<purchases, sales, nextPurchaseId, nextSaleId, anyDelete, reqs,
                   last, ledgerVars, nonWalkVars>>

NextDeleteConc ==
    \/ \E r \in 1..NumRequests, kind \in {"sale", "purchase"}, id \in 1..MaxPurchases :
          DeleteFind(r, kind, id)
    \/ \E r \in 1..NumRequests : DeleteRemove(r)
    \/ \E r \in 1..NumRequests : DeleteSaleRestoreInventory(r)
    \/ \E r \in 1..NumRequests : DeleteSaleFindOldest(r)
    \/ \E r \in 1..NumRequests : DeleteSaleRestorePurchase(r)
    \/ \E r \in 1..NumRequests : DeletePurchaseRevert(r)

(* The requests start after purchases of red p1 and one sale of it that    *)
(* the oldest purchase covered: one purchase of MaxQty, or that and a      *)
(* later one.                                                              *)
InitDeleteConc ==
    /\ \E q \in 1..MaxQty, later \in SUBSET {PurchaseDoc(2, "p1", "red", 1)} :
          /\ sales = {[id |-> 1, product |-> "p1", color |-> "red", quantity |-> q]}
          /\ purchases =
                {[PurchaseDoc(1, "p1", "red", MaxQty) EXCEPT !.quantity = MaxQty - q]}
                    \cup later
          /\ inventory = <<UpsertRow(HookFilter("p1", "red"),
                                     MaxQty - q + Cardinality(later))>>
    /\ nextPurchaseId = 3
    /\ nextSaleId = 2
    /\ anyDelete = FALSE
    /\ last = Outcome("none", 0, NoDoc, 0)
    /\ reqs = [r \in 1..NumRequests |-> IdleRequest]
    /\ ledger = {}
    /\ nextLedgerId = 1
    /\ RestInit

SpecDeleteConc == InitDeleteConc /\ [][NextDeleteConc]_vars

(* The adjustments the hooks of the requests for document id of kind have  *)
(* made so far.                                                            *)
RECURSIVE SumApplied(_)
SumApplied(R) ==
    IF R = {} THEN 0
    ELSE LET r == CHOOSE x \in R : TRUE
         IN  walks[r].applied + SumApplied(R \ {r})

RequestsFor(kind, id) ==
    {r \in DOMAIN walks : walks[r].kind = kind /\ walks[r].target = id}

DeletesEnded ==
    \A r \in DOMAIN walks : walks[r].pc \in {"done", "notfound"}

(* C28: of two overlapping delete requests for one sale, or one purchase,  *)
(* at most one makes the compensating Inventory adjustment, whatever the   *)
(* interleaving; once both have ended and the document is gone exactly one *)
(* has made it, a request whose findByIdAndDelete returned no document    *)
(* has made none, and Inventory again holds what the purchases hold.       *)
C28_DeleteAdjustsOnce ==
    \A kind \in {"sale", "purchase"}, id \in 1..MaxPurchases :
        /\ SumApplied(RequestsFor(kind, id)) <= 1
        /\ \A r \in RequestsFor(kind, id) :
              (walks[r].pc = "done" /\ walks[r].doc = NoDoc) => walks[r].applied = 0
        /\ (DeletesEnded /\ \E r \in RequestsFor(kind, id) : walks[r].pc = "done")
              => /\ SumApplied(RequestsFor(kind, id)) = 1
                 /\ KeyQuantity(inventory, "p1", "red") = SumQuantity(purchases)

(* Both requests found the document, one removed it and adjusted, the      *)
(* other's findByIdAndDelete returned nothing.                             *)
C28_Witness ==
    /\ \A r \in DOMAIN walks : walks[r].pc = "done"
    /\ \E r \in DOMAIN walks : walks[r].doc = NoDoc /\ walks[r].applied = 0
    /\ \E r \in DOMAIN walks : walks[r].doc # NoDoc /\ walks[r].applied = 1

----------------------------------------------------------------------------
(* Overlapping stock-checked sales and the sign of the Inventory quantity *)

(* C29: a sale is saved only by a request whose stock check read an        *)
(* Inventory row holding at least the requested quantity, and with only    *)
(* createSale requests running, overlapping or not, every Inventory        *)
(* quantity stays at or above 0.                                           *)
C29_StockNeverNegative ==
    /\ \A r \in DOMAIN walks :
          walks[r].pc \in {"hook", "find", "walk", "done"} =>
              2 * walks[r].available >= walks[r].halves
    /\ \A i \in DOMAIN inventory : inventory[i].quantity >= 0

(* The first half alone. *)
SaleSavedOnlyAfterStockCheck ==
    \A r \in DOMAIN walks :
        walks[r].pc \in {"hook", "find", "walk", "done"} =>
            2 * walks[r].available >= walks[r].halves /\ walks[r].halves >= 2

----------------------------------------------------------------------------
(* Running balance of a vendor *)

(* The vendor's entries of one type, and the latest-dated of its entries. *)
EntriesOfType(E, transactionType) == {t \in E : t.transactionType = transactionType}

LatestEntries(E) == {t \in E : \A u \in E : u.date <= t.date}

(* C30: for a vendor whose entries were added in date order, each on its   *)
(* own calendar day, with no entry deleted, the closingBalance of the      *)
(* vendor's latest entry is the sum of its receivable amounts minus the    *)
(* sum of its payable amounts.                                             *)
C30_ClosingBalanceIsNetAmount ==
    \A v \in Vendors :
        AddedInDateOrder(ledger, v) =>
            \A t \in LatestEntries(VendorEntries(ledger, v)) :
                t.closingBalance
                    = SumAmounts(EntriesOfType(VendorEntries(ledger, v), "receivable"))
                        - SumAmounts(EntriesOfType(VendorEntries(ledger, v), "payable"))

(* Two entries of one vendor on two days, one of each type, the later one  *)
(* just added on top of a balance that is not 0.                           *)
C30_Witness ==
    /\ Succeeded(last, "addTransaction")
    /\ last.doc \in ledger
    /\ AddedInDateOrder(ledger, last.doc.vendor)
    /\ Cardinality(VendorEntries(ledger, last.doc.vendor)) = 2
    /\ EntriesOfType(VendorEntries(ledger, last.doc.vendor), "receivable") # {}
    /\ EntriesOfType(VendorEntries(ledger, last.doc.vendor), "payable") # {}
    /\ last.doc.openingBalance # 0
    /\ last.doc \in LatestEntries(VendorEntries(ledger, last.doc.vendor))

============================================================================
